---- MODULE Spec2Model ----
(***************************************************************************)
(* A model of soccer-scraper: the retrying fetch (scraper/network.py), the *)
(* season and league orchestration (scraper/main.py) and the               *)
(* reconciliation of the scraped CSV files (pre_processor/processors.py).  *)
(* Each part has its own specification over the shared variables.          *)
(***************************************************************************)
EXTENDS Integers, Sequences, FiniteSets, TLC

VARIABLES
    f_pc,            \* fetch_soup: "idle" | "loop" | "returned" | "raised"
    attempt,         \* fetch_soup: loop variable of range(MAX_RETRIES)
    last_exception,  \* fetch_soup: last caught exception, NoException if none
    f_cause,         \* fetch_soup: __cause__ of the raised ScrapingError
    log,             \* fetch_soup: sleeps and requests, in the order they happen
    leagues,         \* scraper_pipeline: config.LEAGUES, in dictionary order
    leagues_at_start,\* the value of config.LEAGUES when scraper_pipeline is called
    p_pc,            \* scraper_pipeline / run_scraper_for_season: position in the code
    li,              \* scraper_pipeline: index of the league of the outer loop
    year,            \* scraper_pipeline: loop variable of the season loop
    attempted,       \* calls of run_scraper_for_season so far, as <<league, year>>
    season_failed,   \* whether some season so far ended in an exception
    pause,           \* seconds scraper_pipeline has slept since the last request
    last_request,    \* <<league, year>> of the season of the last request
    gaps,            \* the pause found at each first request of another season
    teams,           \* run_scraper_for_season: standings_df, a row is its team_url
    ti,              \* run_scraper_for_season: index of the row of the team loop
    team_result,     \* run_scraper_for_season: what happened to each standings row
    r_pc,            \* pre_processor: position in the reconciliation of one season
    files,           \* the CSV files of the season's team_games directory
    distinct_games,  \* process_season_data: result of _load_and_consolidate_games
    summary,         \* process_season_data: the season summary it returns
    season_games,    \* create_team_games_complete: the rows of the season
    df,              \* _impute_audience: its argument
    home_df,         \* _impute_audience: its result
    standings,       \* the season's standings file: its stem and its rows
    team_games_dir,  \* whether the season has a team_games directory
    assembled,       \* final assembly: the season's standings rows with its summary
    c_pc,            \* a parser or codec function: "idle" | "called" | "returned" | "raised"
    arg,             \* the arguments of the function called
    ret,             \* what it returned, or the exception it raised
    q_pc,            \* a pass over data/raw: "idle" | "files" | "finished" | "aborted"
    pass_name,       \* the pass that is running
    raw,             \* the files the pass finds, in the order it visits them
    fi,              \* index of the file the pass visits next
    frames,          \* the frames appended so far (all_data_frames, all_standings_dfs, ...)
    output           \* what the pass returned

fetchVars == <<f_pc, attempt, last_exception, f_cause, log>>
pipeVars == <<leagues, leagues_at_start, p_pc, li, year, attempted, season_failed,
              pause, last_request, gaps>>
seasonVars == <<teams, ti, team_result>>
reconVars == <<r_pc, files, distinct_games, summary, season_games>>
imputeVars == <<df, home_df>>
prepVars == <<standings, team_games_dir, assembled>>
codecVars == <<c_pc, arg, ret>>
passVars == <<q_pc, pass_name, raw, fi, frames, output>>
vars == <<fetchVars, pipeVars, seasonVars, reconVars, imputeVars,
          prepVars, codecVars, passVars>>

-----------------------------------------------------------------------------
(* scraper/config.py *)

MAX_RETRIES == 5
BACKOFF_FACTOR == 2
REQUEST_DELAY_RANGE_SECONDS == <<3, 12>>

-----------------------------------------------------------------------------
(* scraper/network.py: fetch_soup *)

\* HTTP statuses the server may answer with. raise_for_status() raises
\* HTTPError for 4xx and 5xx.
OkStatuses == {200}
ErrorStatuses == {403, 404, 429, 500, 503}
\* A transport-level failure (requests.exceptions.RequestException that is not
\* an HTTPError) has no status; the log records it with this code.
TransportError == 0

RetriableStatuses_mut == {404, 429, 503}
RetriableStatuses == {429, 503}

NoException == [attempt |-> -1, kind |-> -1]

\* "last_exception = e": the exception caught in attempt att for outcome kind.
ExcOf_mut(att, kind) == [attempt |-> 0, kind |-> kind]
ExcOf(att, kind) == [attempt |-> att, kind |-> kind]

RECURSIVE Pow(_, _)
Pow(b, e) == IF e = 0 THEN 1 ELSE b * Pow(b, e - 1)

\* "wait_time = config.BACKOFF_FACTOR**attempt"
BackoffWait_mut(att) == BACKOFF_FACTOR
BackoffWait(att) == Pow(BACKOFF_FACTOR, att)

Politeness(d) == [ev |-> "politeness", val |-> d]
Request(s) == [ev |-> "request", val |-> s]
Backoff(w) == [ev |-> "backoff", val |-> w]

\* "for attempt in range(config.MAX_RETRIES)": the loop body runs for att.
InRange_mut(att) == att <= MAX_RETRIES
InRange(att) == att < MAX_RETRIES

FetchIdle ==
    /\ f_pc = "idle"
    /\ attempt = 0
    /\ last_exception = NoException
    /\ f_cause = NoException
    /\ log = <<>>

PipelineIdle ==
    /\ leagues = <<>>
    /\ leagues_at_start = <<>>
    /\ p_pc = "idle"
    /\ li = 0
    /\ year = 0
    /\ attempted = <<>>
    /\ season_failed = FALSE
    /\ pause = 0
    /\ last_request = <<>>
    /\ gaps = {}
    /\ teams = <<>>
    /\ ti = 0
    /\ team_result = <<>>

\* The pre-processor has not run: no file is read and nothing is computed.
ReconIdle ==
    /\ r_pc = "idle"
    /\ files = <<>>
    /\ distinct_games = <<>>
    /\ summary = <<>>
    /\ season_games = <<>>
    /\ df = <<>>
    /\ home_df = <<>>
    /\ standings = <<>>
    /\ team_games_dir = FALSE
    /\ assembled = <<>>

\* No parser or codec function has been called.
CodecIdle ==
    /\ c_pc = "idle"
    /\ arg = <<>>
    /\ ret = <<>>

\* No pass over data/raw has run.
PassIdle ==
    /\ q_pc = "idle"
    /\ pass_name = ""
    /\ raw = <<>>
    /\ fi = 0
    /\ frames = <<>>
    /\ output = <<>>

InitFetch ==
    /\ FetchIdle
    /\ PipelineIdle
    /\ ReconIdle
    /\ CodecIdle
    /\ PassIdle

\* Lines 47-51: the politeness sleep, then the loop is entered.
FetchStart ==
    /\ f_pc = "idle"
    /\ \E d \in REQUEST_DELAY_RANGE_SECONDS[1]..REQUEST_DELAY_RANGE_SECONDS[2] :
          log' = Append(log, Politeness(d))
    /\ f_pc' = "loop"
    /\ attempt' = 0
    /\ last_exception' = NoException
    /\ UNCHANGED <<f_cause, pipeVars, seasonVars, reconVars, imputeVars>>
    /\ UNCHANGED <<prepVars, codecVars, passVars>>

\* Lines 53-55: the request succeeds and the parsed document is returned.
AttemptSuccess ==
    /\ f_pc = "loop"
    /\ InRange(attempt)
    /\ \E s \in OkStatuses : log' = Append(log, Request(s))
    /\ f_pc' = "returned"
    /\ UNCHANGED <<attempt, last_exception, f_cause, pipeVars, seasonVars, reconVars, imputeVars>>
    /\ UNCHANGED <<prepVars, codecVars, passVars>>

\* Lines 56-69: raise_for_status() raised HTTPError.
AttemptHTTPError ==
    /\ f_pc = "loop"
    /\ InRange(attempt)
    /\ \E s \in ErrorStatuses :
          /\ last_exception' = ExcOf(attempt, s)
          /\ IF s \in RetriableStatuses
                THEN /\ log' = log \o <<Request(s), Backoff(BackoffWait(attempt))>>
                     /\ attempt' = attempt + 1
                     /\ UNCHANGED <<f_pc, f_cause>>
                ELSE /\ log' = Append(log, Request(s))
                     /\ f_pc' = "raised"
                     /\ f_cause' = ExcOf(attempt, s)
                     /\ UNCHANGED attempt
    /\ UNCHANGED <<pipeVars, seasonVars, reconVars, imputeVars>>
    /\ UNCHANGED <<prepVars, codecVars, passVars>>

\* Lines 70-77: the request itself failed (DNS, connection reset, timeout).
AttemptTransportError ==
    /\ f_pc = "loop"
    /\ InRange(attempt)
    /\ last_exception' = ExcOf(attempt, TransportError)
    /\ log' = log \o <<Request(TransportError), Backoff(BackoffWait(attempt))>>
    /\ attempt' = attempt + 1
    /\ UNCHANGED <<f_pc, f_cause, pipeVars, seasonVars, reconVars, imputeVars>>
    /\ UNCHANGED <<prepVars, codecVars, passVars>>

\* Lines 79-82: range(MAX_RETRIES) is exhausted.
FetchExhausted ==
    /\ f_pc = "loop"
    /\ ~InRange(attempt)
    /\ f_pc' = "raised"
    /\ f_cause' = last_exception
    /\ UNCHANGED <<attempt, last_exception, log, pipeVars, seasonVars, reconVars, imputeVars>>
    /\ UNCHANGED <<prepVars, codecVars, passVars>>

NextFetch ==
    \/ FetchStart
    \/ AttemptSuccess
    \/ AttemptHTTPError
    \/ AttemptTransportError
    \/ FetchExhausted

SpecFetch == InitFetch /\ [][NextFetch]_vars

\* The call runs on: requests.get has a timeout of 20 seconds and every
\* sleep is finite, so a step that can be taken is taken.
SpecFetchLive == InitFetch /\ [][NextFetch]_vars /\ WF_vars(NextFetch)

-----------------------------------------------------------------------------
(* scraper/main.py: scraper_pipeline and run_scraper_for_season *)

FINAL_YEAR == 2024
MIN_START_YEAR == 1990

\* Bounds of the model: the number of entries of config.LEAGUES, the values
\* of their "start_year", and the number of rows of a standings table.
NumLeagues == 2
MaxTeams == 2
StartYears == {1985, 2023}

LeagueInfo == [start_year : StartYears, processed : {"true", "false"}]

\* The standings tables fetch_league_standings may return: one entry per row,
\* TRUE when the row has a team_url, FALSE when it is None.
StandingsTables == UNION {[1..n -> BOOLEAN] : n \in 0..MaxTeams}

\* Exceptions that leave fetch_league_standings / fetch_team_games.
FetchFailures == {"ScrapingError", "ValueError"}

\* Line 122: "if league_info["processed"] == "false""
IsPending_mut(info) == TRUE
IsPending(info) == info.processed = "false"

\* Lines 127-130: "if start_year < MIN_START_YEAR: start_year = MIN_START_YEAR".
FirstYear(info) ==
    IF info.start_year < MIN_START_YEAR THEN MIN_START_YEAR ELSE info.start_year

\* Lines 144-148: the season loop's "except Exception: ... continue" goes on
\* with the next value of range(start_year, FINAL_YEAR + 1).
YearAfterException_mut(y) == FINAL_YEAR + 1
YearAfterException(y) == y + 1

\* Lines 150-151 and 159-160: time.sleep(30) after a season that returned,
\* time.sleep(120) after a league.
SEASON_PAUSE == 30
LEAGUE_PAUSE == 120

SleepAfterSeason_mut(p) == p
SleepAfterSeason(p) == p + SEASON_PAUSE

\* fetch_soup is called for season y of league l (lines 69 and 93 of
\* run_scraper_for_season): when the last request was made for another
\* season, the time slept in between is recorded with the kind of the gap.
GapsAfterRequest(l, y) ==
    IF last_request = <<>> \/ last_request = <<l, y>> THEN gaps
    ELSE gaps \cup {[kind |-> IF last_request[1] = l THEN "season" ELSE "league",
                     pause |-> pause]}

InitPipeline ==
    /\ FetchIdle
    /\ ReconIdle
    /\ CodecIdle
    /\ PassIdle
    /\ leagues \in [1..NumLeagues -> LeagueInfo]
    /\ leagues_at_start = leagues
    /\ p_pc = "leagues"
    /\ li = 1
    /\ year = 0
    /\ attempted = <<>>
    /\ season_failed = FALSE
    /\ pause = 0
    /\ last_request = <<>>
    /\ gaps = {}
    /\ teams = <<>>
    /\ ti = 0
    /\ team_result = <<>>

\* Lines 120-122, 162-163: a league flagged "true" is skipped.
LeagueSkip ==
    /\ p_pc = "leagues"
    /\ li <= NumLeagues
    /\ ~IsPending(leagues[li])
    /\ li' = li + 1
    /\ UNCHANGED <<leagues, leagues_at_start, p_pc, year, attempted, season_failed>>
    /\ UNCHANGED <<fetchVars, seasonVars, reconVars, imputeVars>>
    /\ UNCHANGED <<pause, last_request, gaps>>
    /\ UNCHANGED <<prepVars, codecVars, passVars>>

\* Lines 122-134: a league flagged "false" enters its season loop.
LeagueEnter ==
    /\ p_pc = "leagues"
    /\ li <= NumLeagues
    /\ IsPending(leagues[li])
    /\ year' = FirstYear(leagues[li])
    /\ p_pc' = "seasons"
    /\ UNCHANGED <<leagues, leagues_at_start, li, attempted, season_failed>>
    /\ UNCHANGED <<fetchVars, seasonVars, reconVars, imputeVars>>
    /\ UNCHANGED <<pause, last_request, gaps>>
    /\ UNCHANGED <<prepVars, codecVars, passVars>>

\* Lines 134-143, 48-57: the next season is started; run_scraper_for_season
\* creates its directories before its try block.
SeasonBegin ==
    /\ p_pc = "seasons"
    /\ year <= FINAL_YEAR
    /\ attempted' = Append(attempted, <<li, year>>)
    /\ teams' = <<>>
    /\ ti' = 0
    /\ team_result' = <<>>
    /\ p_pc' = "makedirs"
    /\ UNCHANGED <<leagues, leagues_at_start, li, year, season_failed>>
    /\ UNCHANGED <<fetchVars, reconVars, imputeVars>>
    /\ UNCHANGED <<pause, last_request, gaps>>
    /\ UNCHANGED <<prepVars, codecVars, passVars>>

\* Lines 56-57: os.makedirs succeeds and the try block is entered.
MakedirsOk ==
    /\ p_pc = "makedirs"
    /\ p_pc' = "standings"
    /\ UNCHANGED <<leagues, leagues_at_start, li, year, attempted, season_failed>>
    /\ UNCHANGED <<fetchVars, seasonVars, reconVars, imputeVars>>
    /\ UNCHANGED <<pause, last_request, gaps>>
    /\ UNCHANGED <<prepVars, codecVars, passVars>>

\* Lines 56-57, 144-148: os.makedirs raises OSError outside the try block of
\* run_scraper_for_season; scraper_pipeline catches it and continues, without
\* the 30 s sleep.
MakedirsRaises ==
    /\ p_pc = "makedirs"
    /\ season_failed' = TRUE
    /\ year' = YearAfterException(year)
    /\ p_pc' = "seasons"
    /\ UNCHANGED <<leagues, leagues_at_start, li, attempted>>
    /\ UNCHANGED <<fetchVars, seasonVars, reconVars, imputeVars>>
    /\ UNCHANGED <<pause, last_request, gaps>>
    /\ UNCHANGED <<prepVars, codecVars, passVars>>

\* Lines 69-78: the standings are fetched and saved.
StandingsOk ==
    /\ p_pc = "standings"
    /\ \E tbl \in StandingsTables :
          /\ teams' = tbl
          /\ team_result' = [i \in 1..Len(tbl) |-> "none"]
    /\ ti' = 1
    /\ p_pc' = "teams"
    /\ gaps' = GapsAfterRequest(li, year)
    /\ last_request' = <<li, year>>
    /\ pause' = 0
    /\ UNCHANGED <<leagues, leagues_at_start, li, year, attempted, season_failed>>
    /\ UNCHANGED <<fetchVars, reconVars, imputeVars>>
    /\ UNCHANGED <<prepVars, codecVars, passVars>>

\* Lines 69, 106-109, 150-151: fetch_league_standings raises; the exception
\* is caught inside run_scraper_for_season, which returns.
StandingsFails ==
    /\ p_pc = "standings"
    /\ \E e \in FetchFailures : season_failed' = TRUE
    /\ year' = year + 1
    /\ p_pc' = "seasons"
    /\ gaps' = GapsAfterRequest(li, year)
    /\ last_request' = <<li, year>>
    /\ pause' = SleepAfterSeason(0)
    /\ UNCHANGED <<leagues, leagues_at_start, li, attempted>>
    /\ UNCHANGED <<fetchVars, seasonVars, reconVars, imputeVars>>
    /\ UNCHANGED <<prepVars, codecVars, passVars>>

\* Lines 80-86: a row without team_url is skipped.
TeamSkip ==
    /\ p_pc = "teams"
    /\ ti <= Len(teams)
    /\ ~teams[ti]
    /\ team_result' = [team_result EXCEPT ![ti] = "skipped"]
    /\ ti' = ti + 1
    /\ UNCHANGED <<pipeVars, fetchVars, teams, reconVars, imputeVars>>
    /\ UNCHANGED <<prepVars, codecVars, passVars>>

\* Lines 88-104: the team's schedule is fetched; it is saved unless empty.
\* Line 93 calls fetch_team_schedules, a name parsers.py does not define; the
\* schedule extractor there is fetch_team_games (called under that name by
\* the same loop in src/main.py:405), which is what the call is taken to be.
TeamFetched ==
    /\ p_pc = "teams"
    /\ ti <= Len(teams)
    /\ teams[ti]
    /\ \E r \in {"saved", "empty"} :
          team_result' = [team_result EXCEPT ![ti] = r]
    /\ ti' = ti + 1
    /\ gaps' = GapsAfterRequest(li, year)
    /\ last_request' = <<li, year>>
    /\ pause' = 0
    /\ UNCHANGED <<leagues, leagues_at_start, p_pc, li, year, attempted, season_failed>>
    /\ UNCHANGED <<fetchVars, teams, reconVars, imputeVars>>
    /\ UNCHANGED <<prepVars, codecVars, passVars>>

\* Lines 93, 106-109, 150-151: fetching or parsing the team's schedule raises
\* (ScrapingError from fetch_soup, ValueError when the table is not found).
\* The try block encloses the whole team loop, so the handler is reached
\* outside the loop and run_scraper_for_season returns.
TeamFails ==
    /\ p_pc = "teams"
    /\ ti <= Len(teams)
    /\ teams[ti]
    /\ \E e \in FetchFailures :
          team_result' = [team_result EXCEPT ![ti] = e]
    /\ season_failed' = TRUE
    /\ year' = year + 1
    /\ p_pc' = "seasons"
    /\ gaps' = GapsAfterRequest(li, year)
    /\ last_request' = <<li, year>>
    /\ pause' = SleepAfterSeason(0)
    /\ UNCHANGED <<leagues, leagues_at_start, li, attempted>>
    /\ UNCHANGED <<fetchVars, teams, ti, reconVars, imputeVars>>
    /\ UNCHANGED <<prepVars, codecVars, passVars>>

\* Lines 80, 150-151: the team loop is over and the season returns.
SeasonReturn ==
    /\ p_pc = "teams"
    /\ ti > Len(teams)
    /\ year' = year + 1
    /\ p_pc' = "seasons"
    /\ pause' = SleepAfterSeason(pause)
    /\ UNCHANGED <<last_request, gaps>>
    /\ UNCHANGED <<leagues, leagues_at_start, li, attempted, season_failed>>
    /\ UNCHANGED <<fetchVars, seasonVars, reconVars, imputeVars>>
    /\ UNCHANGED <<prepVars, codecVars, passVars>>

\* Lines 154-160: the season loop is over; the league is flagged "true".
LeagueDone ==
    /\ p_pc = "seasons"
    /\ year > FINAL_YEAR
    /\ leagues' = [leagues EXCEPT ![li].processed = "true"]
    /\ li' = li + 1
    /\ p_pc' = "leagues"
    /\ pause' = pause + LEAGUE_PAUSE
    /\ UNCHANGED <<last_request, gaps>>
    /\ UNCHANGED <<leagues_at_start, year, attempted, season_failed>>
    /\ UNCHANGED <<fetchVars, seasonVars, reconVars, imputeVars>>
    /\ UNCHANGED <<prepVars, codecVars, passVars>>

\* Line 165: the league loop is over.
PipelineFinish ==
    /\ p_pc = "leagues"
    /\ li > NumLeagues
    /\ p_pc' = "finished"
    /\ UNCHANGED <<leagues, leagues_at_start, li, year, attempted, season_failed>>
    /\ UNCHANGED <<fetchVars, seasonVars, reconVars, imputeVars>>
    /\ UNCHANGED <<pause, last_request, gaps>>
    /\ UNCHANGED <<prepVars, codecVars, passVars>>

NextPipeline ==
    \/ LeagueSkip
    \/ LeagueEnter
    \/ SeasonBegin
    \/ MakedirsOk
    \/ MakedirsRaises
    \/ StandingsOk
    \/ StandingsFails
    \/ TeamSkip
    \/ TeamFetched
    \/ TeamFails
    \/ SeasonReturn
    \/ LeagueDone
    \/ PipelineFinish

SpecPipeline == InitPipeline /\ [][NextPipeline]_vars

-----------------------------------------------------------------------------
(* Reading the log of a fetch_soup call *)

RequestIdx == {i \in 1..Len(log) : log[i].ev = "request"}
BackoffIdx == {i \in 1..Len(log) : log[i].ev = "backoff"}

RECURSIVE ValuesOf(_, _)
ValuesOf(kind, s) ==
    IF s = <<>> THEN <<>>
    ELSE IF Head(s).ev = kind THEN <<Head(s).val>> \o ValuesOf(kind, Tail(s))
    ELSE ValuesOf(kind, Tail(s))

Outcomes == ValuesOf("request", log)
BackoffWaits == ValuesOf("backoff", log)

IsRetriableOutcome(v) == v = TransportError \/ v \in {429, 503}
IsFatalOutcome(v) == v \in ErrorStatuses \ {429, 503}

-----------------------------------------------------------------------------
(* Claims about fetch_soup, checked under SpecFetch *)

\* C1: a call answered 503, 503, 200 returns the document, having issued
\* exactly 3 requests and slept BACKOFF_FACTOR^attempt after each failure
\* (1 s, then 2 s, strictly increasing), with no sleep after the 200.
C1_TwoFailuresThenSuccess ==
    Outcomes = <<503, 503, 200>> =>
        /\ f_pc = "returned"
        /\ Cardinality(RequestIdx) = 3
        /\ SubSeq(log, 2, Len(log)) =
              <<Request(503), Backoff(1), Request(503), Backoff(2), Request(200)>>
        /\ BackoffWaits = <<Pow(BACKOFF_FACTOR, 0), Pow(BACKOFF_FACTOR, 1)>>
        /\ BackoffWaits[1] < BackoffWaits[2]

C1_Witness ==
    /\ Outcomes = <<503, 503, 200>>
    /\ f_pc = "returned"

\* C2: an HTTP error status other than 429 or 503 ends the call at once with
\* ScrapingError: no backoff sleep and no request follows that response,
\* whatever number of retriable failures came before it.
C2_FatalStatusRaisesAtOnce ==
    \A i \in RequestIdx :
        IsFatalOutcome(log[i].val) =>
            /\ i = Len(log)
            /\ f_pc = "raised"
            /\ f_cause = [attempt |-> Cardinality(RequestIdx) - 1, kind |-> log[i].val]

C2_Witness ==
    /\ f_pc = "raised"
    /\ Len(Outcomes) = 3
    /\ IsRetriableOutcome(Outcomes[1])
    /\ IsRetriableOutcome(Outcomes[2])
    /\ Outcomes[3] = 404

\* C3: when every attempt fails retriably (429, 503 or a transport error, in
\* any mix) the call raises ScrapingError after exactly MAX_RETRIES requests,
\* all attempts sharing one counter and one backoff schedule, and the raised
\* error's cause is the error of the last attempt.
C3_ExhaustionRaisesWithLastCause ==
    (f_pc \in {"returned", "raised"}
        /\ \A i \in 1..Len(Outcomes) : IsRetriableOutcome(Outcomes[i])) =>
        /\ f_pc = "raised"
        /\ Len(Outcomes) = MAX_RETRIES
        /\ BackoffWaits = [k \in 1..MAX_RETRIES |-> Pow(BACKOFF_FACTOR, k - 1)]
        /\ f_cause = [attempt |-> MAX_RETRIES - 1, kind |-> Outcomes[MAX_RETRIES]]

C3_Witness ==
    /\ f_pc = "raised"
    /\ Len(Outcomes) = MAX_RETRIES
    /\ Outcomes[1] = 429
    /\ Outcomes[2] = TransportError
    /\ Outcomes[MAX_RETRIES] = 503

\* C4: every request, the first attempt and each retry alike, is immediately
\* preceded by a politeness sleep drawn from REQUEST_DELAY_RANGE_SECONDS.
C4_PolitenessBeforeEveryRequest ==
    \A i \in RequestIdx :
        /\ i > 1
        /\ log[i - 1].ev = "politeness"
        /\ log[i - 1].val >= REQUEST_DELAY_RANGE_SECONDS[1]
        /\ log[i - 1].val <= REQUEST_DELAY_RANGE_SECONDS[2]

-----------------------------------------------------------------------------
(* Claims about the orchestration, checked under SpecPipeline *)

\* The rows of the season that has just run whose schedule was requested.
IsFetched(i) == team_result[i] \in {"saved", "empty", "ScrapingError", "ValueError"}
SeasonOver == p_pc \in {"seasons", "leagues", "finished"}

\* C5: within run_scraper_for_season a failure while fetching or parsing one
\* team's schedule does not abort the season: every later standings row that
\* has a team URL still has its schedule fetched.
C5_TeamFailureKeepsSeasonGoing ==
    SeasonOver =>
        \A j \in 1..Len(teams) : \A i \in 1..Len(teams) :
            (j < i /\ team_result[j] \in {"ScrapingError", "ValueError"} /\ teams[i])
                => IsFetched(i)

\* The seasons scraper_pipeline is configured to attempt, in order: for each
\* league flagged "false" at the start, max(start_year, 1990) .. 2024.
SeasonsOf(l) ==
    LET s == leagues_at_start[l].start_year
        lo == IF s > 1990 THEN s ELSE 1990
    IN  IF leagues_at_start[l].processed = "false"
        THEN [k \in 1..(2024 - lo + 1) |-> <<l, lo + k - 1>>]
        ELSE <<>>

RECURSIVE ExpectedAttempts(_)
ExpectedAttempts(l) ==
    IF l = 0 THEN <<>> ELSE ExpectedAttempts(l - 1) \o SeasonsOf(l)

IsPrefix(s, u) == Len(s) <= Len(u) /\ s = SubSeq(u, 1, Len(s))

\* C6: whatever fails while a season is scraped, every (league, season) pair
\* of the configured range is attempted exactly once: the calls of
\* run_scraper_for_season are always a prefix of the configured pairs, and
\* all of them once the pipeline has finished.
C6_EverySeasonAttemptedOnce ==
    /\ IsPrefix(attempted, ExpectedAttempts(Len(leagues_at_start)))
    /\ (p_pc = "seasons" /\ year <= 2024) =>
            Len(attempted) < Len(ExpectedAttempts(Len(leagues_at_start)))
    /\ p_pc = "finished" => attempted = ExpectedAttempts(Len(leagues_at_start))

C6_Witness ==
    /\ season_failed
    /\ p_pc = "makedirs"
    /\ Len(attempted) = 2

-----------------------------------------------------------------------------
(* scraper/utils.py: sanitize_filename *)
(* A string is a sequence of one-character strings.                        *)

\* The characters [a-z0-9] and \d match.
DigitChars == {"0", "1", "2", "3", "4", "5", "6", "7", "8", "9"}
LowerChars ==
    {"a", "b", "c", "d", "e", "f", "g", "h", "i", "j", "k", "l", "m",
     "n", "o", "p", "q", "r", "s", "t", "u", "v", "w", "x", "y", "z"}
LowerAlnumChars == LowerChars \cup DigitChars

\* unicodedata.normalize("NFKD", text).encode("ascii", "ignore"): an accented
\* letter loses its accent, any other non-ASCII character is dropped.
AsciiFold(c) ==
    CASE c = "é" -> <<"e">>
      [] c = "ã" -> <<"a">>
      [] c = "ß" -> <<>>
      [] OTHER -> <<c>>

\* text.lower()
Lower(c) ==
    CASE c = "A" -> "a"
      [] c = "B" -> "b"
      [] c = "C" -> "c"
      [] c = "D" -> "d"
      [] c = "E" -> "e"
      [] c = "F" -> "f"
      [] c = "G" -> "g"
      [] c = "H" -> "h"
      [] c = "I" -> "i"
      [] c = "J" -> "j"
      [] c = "K" -> "k"
      [] c = "L" -> "l"
      [] c = "M" -> "m"
      [] c = "N" -> "n"
      [] c = "O" -> "o"
      [] c = "P" -> "p"
      [] c = "Q" -> "q"
      [] c = "R" -> "r"
      [] c = "S" -> "s"
      [] c = "T" -> "t"
      [] c = "U" -> "u"
      [] c = "V" -> "v"
      [] c = "W" -> "w"
      [] c = "X" -> "x"
      [] c = "Y" -> "y"
      [] c = "Z" -> "z"
      [] OTHER -> c

\* The characters \w and \s match, among those that are left after the
\* first two steps.
WordChars == LowerAlnumChars \cup {"_"}
SpaceChars == {" "}

\* re.sub(r"[^\w\s-]", "", text)
KeepWordSpaceHyphen(c) ==
    IF c \in WordChars \cup SpaceChars \cup {"-"} THEN <<c>> ELSE <<>>

\* re.sub(r"[\s-]+", "", text)
DropSpaceHyphen(c) == IF c \in SpaceChars \cup {"-"} THEN <<>> ELSE <<c>>

\* The four steps of sanitize_filename on one character: each step maps a
\* character to itself, to another character or to nothing.
SanitizeChar(c) ==
    LET folded == AsciiFold(c) IN
    IF folded = <<>> THEN <<>>
    ELSE LET kept == KeepWordSpaceHyphen(Lower(folded[1])) IN
         IF kept = <<>> THEN <<>> ELSE DropSpaceHyphen(kept[1])

RECURSIVE sanitize_filename(_)
sanitize_filename(text) ==
    IF text = <<>> THEN <<>>
    ELSE SanitizeChar(Head(text)) \o sanitize_filename(Tail(text))

-----------------------------------------------------------------------------
(* pre_processor/utils.py: generate_id, extract_metadata_from_filename,    *)
(* validate_url_year                                                       *)

\* np.nan / <NA> in a numeric column, and a missing cell of a CSV file.
NaN == -1

\* What a call did: it returned a value or raised an exception.
Returned(v) == [kind |-> "returned", value |-> v]
Raised(e) == [kind |-> "raised", value |-> e]

\* int() of one digit and of a run of digits.
DigitVal(c) ==
    CASE c = "0" -> 0 [] c = "1" -> 1 [] c = "2" -> 2 [] c = "3" -> 3
      [] c = "4" -> 4 [] c = "5" -> 5 [] c = "6" -> 6 [] c = "7" -> 7
      [] c = "8" -> 8 [] c = "9" -> 9

RECURSIVE IntOf(_)
IntOf(ds) ==
    IF ds = <<>> THEN 0
    ELSE IntOf(SubSeq(ds, 1, Len(ds) - 1)) * 10 + DigitVal(ds[Len(ds)])

\* str() of a digit and of a natural number, as in an f-string.
DigitChar(n) == CHOOSE c \in DigitChars : DigitVal(c) = n

RECURSIVE StrOf(_)
StrOf(n) == IF n < 10 THEN <<DigitChar(n)>> ELSE Append(StrOf(n \div 10), DigitChar(n % 10))

\* hashlib.sha256(data.encode("utf-8")).hexdigest(). The digest is not
\* computed: it is the term sha256(data), so that two digests are equal
\* exactly when the hashed strings are.
generate_id(data) == [sha256 |-> data]

\* The length of the longest prefix of s made of characters of class: what a
\* greedy "[...]+" consumes.
RECURSIVE RunLen(_, _)
RunLen(s, class) ==
    IF s = <<>> \/ Head(s) \notin class THEN 0 ELSE 1 + RunLen(Tail(s), class)

\* re.match of a literal at the start of s.
StartsWith(s, lit) == Len(lit) <= Len(s) /\ SubSeq(s, 1, Len(lit)) = lit

Drop(s, n) == SubSeq(s, n + 1, Len(s))

YearDigits == 4
StandingsSuffix == <<"s", "t", "a", "n", "d", "i", "n", "g", "s">>

\* re.match(r"([a-z0-9]+)_(\d{4})_", filename): the part both patterns share.
\* "[a-z0-9]+" must take the whole run of such characters, for "_" follows
\* it; the match is anchored at the start of the name only.
LeagueSeasonMatch(filename) ==
    LET n == RunLen(filename, LowerAlnumChars)
        afterLeague == Drop(filename, n)
        afterSep == Drop(afterLeague, 1)
        digits == SubSeq(afterSep, 1, YearDigits)
        afterYear == Drop(afterSep, YearDigits)
    IN  IF /\ n >= 1
           /\ StartsWith(afterLeague, <<"_">>)
           /\ Len(afterSep) >= YearDigits
           /\ \A i \in 1..YearDigits : afterSep[i] \in DigitChars
           /\ StartsWith(afterYear, <<"_">>)
        THEN <<[league_name |-> SubSeq(filename, 1, n),
                season_year |-> IntOf(digits),
                rest |-> Drop(afterYear, 1)]>>
        ELSE <<>>

\* Lines 40-46: re.match(r"([a-z0-9]+)_(\d{4})_standings", filename)
StandingsMatch(filename) ==
    LET m == LeagueSeasonMatch(filename) IN
    IF m # <<>> /\ StartsWith(m[1].rest, StandingsSuffix) THEN m ELSE <<>>

\* Lines 49-56: re.match(r"([a-z0-9]+)_(\d{4})_([a-z0-9]+)", filename)
GamesMatch(filename) ==
    LET m == LeagueSeasonMatch(filename) IN
    IF m # <<>> /\ RunLen(m[1].rest, LowerAlnumChars) >= 1 THEN m ELSE <<>>

\* Lines 37-58, for the stem of the file's name.
extract_metadata_from_filename(filename) ==
    IF StandingsMatch(filename) # <<>>
    THEN LET m == StandingsMatch(filename)[1] IN
         Returned([type |-> "standings",
                   league_name |-> m.league_name,
                   season_year |-> m.season_year,
                   team_sanitized_name |-> <<>>])
    ELSE IF GamesMatch(filename) # <<>>
    THEN LET m == GamesMatch(filename)[1] IN
         Returned([type |-> "games",
                   league_name |-> m.league_name,
                   season_year |-> m.season_year,
                   team_sanitized_name |->
                       SubSeq(m.rest, 1, RunLen(m.rest, LowerAlnumChars))])
    ELSE Raised("ValueError")

SaisonIdPrefix == <<"s", "a", "i", "s", "o", "n", "_", "i", "d", "/">>

\* re.search(r"saison_id/(\d{4})", url): the positions where the pattern
\* matches; re.search takes the leftmost.
SaisonIdAt(url) ==
    {i \in 1..Len(url) :
        /\ StartsWith(Drop(url, i - 1), SaisonIdPrefix)
        /\ Len(url) >= i - 1 + Len(SaisonIdPrefix) + YearDigits
        /\ \A k \in 1..YearDigits : url[i - 1 + Len(SaisonIdPrefix) + k] \in DigitChars}

\* Line 80: "return url_year <= season_year"
UrlYearValid_mut(url_year, season_year) == url_year < season_year
UrlYearValid(url_year, season_year) == url_year <= season_year

\* A team_url that is None (parsers.py:64) is an empty cell of the CSV file
\* and is read back as NaN, which is not a str. No cell is read back as the
\* empty string, so the empty sequence stands for the missing URL.
NoUrl == <<>>

\* Lines 72-80.
validate_url_year(url, season_year) ==
    IF url = NoUrl THEN FALSE
    ELSE IF SaisonIdAt(url) = {} THEN FALSE
    ELSE LET i == CHOOSE j \in SaisonIdAt(url) : \A k \in SaisonIdAt(url) : j <= k
             first == i + Len(SaisonIdPrefix)
         IN  UrlYearValid(IntOf(SubSeq(url, first, first + YearDigits - 1)), season_year)

-----------------------------------------------------------------------------
(* pre_processor/processors.py: the rows of a team_games file *)

\* Bounds of the model of one season: the names of the two teams whose files
\* are read, the dates (day numbers, in chronological order), the results and
\* the attendances a row may hold, and the number of rows over all files.
TeamNames == {<<"F", "C">>, <<"S", "ã", "o", "-", "B">>}
ReconDates == {1, 2}
ReconAudiences == {0, 100}
Results == {<<"1", ":", "0">>}
FileNames == {"fc", "saob"}
MaxRows == 3

OtherTeam(name) == CHOOSE n \in TeamNames : n # name

\* The rows fetch_team_games writes (parsers.py:180-193): the audience is an
\* integer, 0 when unknown. The matches of a date are those of one round.
MatchRow(d, h, a, res) ==
    [round |-> d, date |-> d, home_team |-> h, away_team |-> OtherTeam(h),
     result |-> res, audience |-> a, match_link |-> d]

ReconRows ==
    {MatchRow(d, h, a, res) :
        d \in ReconDates, h \in TeamNames, a \in ReconAudiences, res \in Results}

RECURSIVE SumLen(_, _)
SumLen(f, S) ==
    IF S = {} THEN 0
    ELSE LET x == CHOOSE y \in S : TRUE IN Len(f[x]) + SumLen(f, S \ {x})

\* Path.glob("*.csv") yields the files in an order the file system decides.
GlobOrders(S) ==
    {o \in [1..Cardinality(S) -> S] : \A i, j \in 1..Cardinality(S) : o[i] = o[j] => i = j}

\* Lines 24-36, 42: the non-empty files, concatenated in the order read.
RECURSIVE ConcatFiles(_, _)
ConcatFiles(fs, order) ==
    IF order = <<>> THEN <<>>
    ELSE fs[Head(order)] \o ConcatFiles(fs, Tail(order))

\* Lines 43-45: subset=["date", "home_team", "away_team", "result"].
DedupKey_mut(r) == <<r.date, r.home_team, r.away_team, r.result, r.audience>>
DedupKey(r) == <<r.date, r.home_team, r.away_team, r.result>>

\* DataFrame.drop_duplicates(subset=...): the first row of each key is kept,
\* in the order of the frame.
RECURSIVE DropDuplicatesFrom(_, _)
DropDuplicatesFrom(s, seen) ==
    IF s = <<>> THEN <<>>
    ELSE IF DedupKey(Head(s)) \in seen
         THEN DropDuplicatesFrom(Tail(s), seen)
         ELSE <<Head(s)>> \o DropDuplicatesFrom(Tail(s), seen \cup {DedupKey(Head(s))})

drop_duplicates(s) == DropDuplicatesFrom(s, {})

\* None, returned where a frame or a dictionary is expected. A frame that is
\* returned always has a row, so the empty sequence stands for None; a
\* dictionary that is returned is a sequence of one record.
None == <<>>

\* Lines 24-50.
load_and_consolidate_games(fs, order) ==
    IF \A f \in DOMAIN fs : fs[f] = <<>>
    THEN None
    ELSE drop_duplicates(ConcatFiles(fs, order))

-----------------------------------------------------------------------------
(* pre_processor/processors.py: process_season_data, lines 99-127 *)

\* distinct_games_df["audience"].fillna(0)
FillNa0(a) == IF a = NaN THEN 0 ELSE a

\* int((distinct_games_df["audience"] == 0).sum())
NumNullAttendance(dg) ==
    Cardinality({i \in 1..Len(dg) : FillNa0(dg[i].audience) = 0})

\* (num_null_attendance_games / num_total_games) * 100 if num_total_games > 0
\* else 0, as the exact fraction num / den.
PctNullAttendance(n, total) ==
    IF total > 0 THEN [num |-> n * 100, den |-> total] ELSE [num |-> 0, den |-> 1]

\* "is_valid_attendance = pct_null_attendance_games < 5.0"
IsValidAttendance_mut(pct) == pct.num <= 5 * pct.den
IsValidAttendance(pct) == pct.num < 5 * pct.den

\* round(pct_null_attendance_games, 2), in hundredths of a percent. The
\* float is rounded to the nearest hundredth; when the exact value lies
\* half-way between two hundredths the float's representation error decides,
\* so either neighbour may result.
RoundPct(pct) ==
    LET x == pct.num * 100
        lo == x \div pct.den
        rem == x % pct.den
    IN  IF 2 * rem < pct.den THEN {lo}
        ELSE IF 2 * rem > pct.den THEN {lo + 1}
        ELSE {lo, lo + 1}

\* A row of a standings file (parsers.py:67-80), of which the pre-processor
\* reads the position, the team and the team_url.
StandingsRow(pos, team, url) == [position |-> pos, team |-> team, team_url |-> url]

CsvSuffix == <<".", "c", "s", "v">>

\* standings_file.name
FileName_mut(stem) == stem
FileName(stem) == stem \o CsvSuffix

\* Lines 79-84: all(standings_df.apply(validate_url_year(row["team_url"], ...)))
AllUrlsValid(rows, season_year) ==
    \A i \in 1..Len(rows) : validate_url_year(rows[i].team_url, season_year)

\* Line 100: "num_total_games == num_total_teams * (num_total_teams - 1)"
IsDoubleRounded_mut(num_total_games, num_total_teams) ==
    2 * num_total_games = num_total_teams * (num_total_teams - 1)
IsDoubleRounded(num_total_games, num_total_teams) ==
    num_total_games = num_total_teams * (num_total_teams - 1)

\* Lines 69-71, 78-92, 99-100, 115-125: the part of the dictionary that
\* process_season_data computes from the standings file; meta is the
\* metadata of its name, num_files the number of CSV files of team_games.
StandingsPart(std, meta, num_files, dg) ==
    [source_id |-> generate_id(FileName(std.stem)),
     source_csv_file |-> FileName(std.stem),
     league_name |-> meta.league_name,
     season_year |-> meta.season_year,
     has_all_teams_files |-> (num_files = Len(std.rows)),
     num_total_teams |-> Len(std.rows),
     is_valid_url |-> AllUrlsValid(std.rows, meta.season_year),
     is_double_rounded |-> IsDoubleRounded(Len(dg), Len(std.rows))]

\* The attendance part of the dictionary process_season_data returns.
SeasonSummaries(dg) ==
    LET total == Len(dg)
        nulls == NumNullAttendance(dg)
        pct == PctNullAttendance(nulls, total)
    IN  {[num_total_games |-> total,
          num_null_attendance_games |-> nulls,
          pct_null_attendance_games |-> p,
          is_valid_attendance |-> IsValidAttendance(pct)] : p \in RoundPct(pct)}

-----------------------------------------------------------------------------
(* pre_processor/processors.py: _impute_audience *)

RECURSIVE SeqSum(_)
SeqSum(s) == IF s = <<>> THEN 0 ELSE Head(s) + SeqSum(Tail(s))

RECURSIVE Reverse(_)
Reverse(s) == IF s = <<>> THEN <<>> ELSE Append(Reverse(Tail(s)), Head(s))

RECURSIVE Insert(_, _)
Insert(x, s) ==
    IF s = <<>> THEN <<x>>
    ELSE IF x <= Head(s) THEN <<x>> \o s
    ELSE <<Head(s)>> \o Insert(x, Tail(s))

RECURSIVE Sorted(_)
Sorted(s) == IF s = <<>> THEN <<>> ELSE Insert(Head(s), Sorted(Tail(s)))

\* numpy's round(0) of num / den: to the nearest integer, halves to even.
RoundHalfEven(num, den) ==
    LET lo == num \div den
        rem == num % den
    IN  IF 2 * rem < den THEN lo
        ELSE IF 2 * rem > den THEN lo + 1
        ELSE IF lo % 2 = 0 THEN lo ELSE lo + 1

\* Line 276: df["home_team_sanitized"].value_counts().idxmax(). Among names
\* of equal count the order of value_counts decides; any of them may result.
HomeCount(d, name) ==
    Cardinality({i \in 1..Len(d) : d[i].home_team_sanitized = name})

Principals(d) ==
    {d[i].home_team_sanitized : i \in {j \in 1..Len(d) :
        \A k \in 1..Len(d) :
            HomeCount(d, d[k].home_team_sanitized) <= HomeCount(d, d[j].home_team_sanitized)}}

\* Line 277: the home games of the principal team, in the order of the file.
IsHomeOf(name, r) == r.home_team_sanitized = name

RECURSIVE HomeRows(_, _)
HomeRows(d, name) ==
    IF d = <<>> THEN <<>>
    ELSE IF IsHomeOf(name, Head(d)) THEN <<Head(d)>> \o HomeRows(Tail(d), name)
    ELSE HomeRows(Tail(d), name)

\* Line 279: home_df["audience"].replace(0, np.nan)
AudienceClean(hd) ==
    [i \in 1..Len(hd) |-> IF hd[i].audience = 0 THEN NaN ELSE hd[i].audience]

RECURSIVE Known(_)
Known(a) ==
    IF a = <<>> THEN <<>>
    ELSE IF Head(a) = NaN THEN Known(Tail(a)) ELSE <<Head(a)>> \o Known(Tail(a))

\* Series.mean(), .median() and .mode().iloc[0] of the known values, after
\* the .round(0).astype("Int64") of lines 300-307.
MeanVal(k) == RoundHalfEven(SeqSum(k), Len(k))

MedianVal(k) ==
    LET s == Sorted(k)
        n == Len(k)
    IN  IF n % 2 = 1 THEN s[(n + 1) \div 2]
        ELSE RoundHalfEven(s[n \div 2] + s[n \div 2 + 1], 2)

Occurrences(k, v) == Cardinality({i \in 1..Len(k) : k[i] = v})

ModeVal(k) ==
    LET most == {k[i] : i \in {j \in 1..Len(k) :
                    \A m \in 1..Len(k) : Occurrences(k, k[m]) <= Occurrences(k, k[j])}}
    IN  CHOOSE v \in most : \A w \in most : v <= w

\* Series.fillna(value)
FillNa(a, v) == [i \in 1..Len(a) |-> IF a[i] = NaN THEN v ELSE a[i]]

\* Series.ffill(): a missing value takes the last value before it in the
\* order of the rows.
RECURSIVE FFillFrom(_, _)
FFillFrom(a, last) ==
    IF a = <<>> THEN <<>>
    ELSE LET v == IF Head(a) = NaN THEN last ELSE Head(a)
         IN  <<v>> \o FFillFrom(Tail(a), v)

ffill(a) == FFillFrom(a, NaN)

\* Series.bfill(): a missing value takes the first value after it.
bfill(a) == Reverse(FFillFrom(Reverse(a), NaN))

\* Line 298: audience_clean_home.ffill().bfill()
FillFB(a) == bfill(ffill(a))

\* Lines 276-310, for the principal team chosen at line 276.
impute_audience(d, principal) ==
    LET hd == HomeRows(d, principal)
        clean == AudienceClean(hd)
        k == Known(clean)
        any == k # <<>>
        mean == IF any THEN FillNa(clean, MeanVal(k)) ELSE [i \in 1..Len(hd) |-> NaN]
        median == IF any THEN FillNa(clean, MedianVal(k)) ELSE [i \in 1..Len(hd) |-> NaN]
        mode == IF any THEN FillNa(clean, ModeVal(k)) ELSE [i \in 1..Len(hd) |-> NaN]
        fb == FillFB(clean)
    IN  [i \in 1..Len(hd) |->
            hd[i] @@
            [audience_filled_fb |-> fb[i],
             audience_filled_mean |-> mean[i],
             audience_filled_median |-> median[i],
             audience_filled_mode |-> mode[i]]]

\* _process_season_games, lines 339-340: the columns added to a file's frame
\* before _impute_audience is called.
WithFileColumns(d, fname) ==
    [i \in 1..Len(d) |->
        d[i] @@
        [home_team_sanitized |-> sanitize_filename(d[i].home_team),
         source_csv_file |-> fname]]

\* _process_season_games, lines 330-353: every non-empty file, in the order
\* read, reduced by _impute_audience; None when no file has rows.
RECURSIVE ConcatImputed(_, _, _)
ConcatImputed(fs, order, pick) ==
    IF order = <<>> THEN <<>>
    ELSE LET f == Head(order)
             part == IF fs[f] = <<>> THEN <<>>
                     ELSE impute_audience(WithFileColumns(fs[f], f), pick[f])
         IN  part \o ConcatImputed(fs, Tail(order), pick)

\* Lines 373-384: the columns that identify the season, the file and the row.
\* The name of the standings file is rebuilt from the names of the league and
\* year directories.
WithSeasonIds(rows, league_name, season_year) ==
    LET standings_csv_file ==
            league_name \o <<"_">> \o StrOf(season_year) \o <<"_">> \o StandingsSuffix \o CsvSuffix
    IN  [i \in 1..Len(rows) |->
            rows[i] @@
            [league_name |-> league_name,
             season_year |-> season_year,
             standings_csv_file |-> standings_csv_file,
             standings_id |-> generate_id(standings_csv_file),
             source_id |-> generate_id(rows[i].source_csv_file),
             id |-> generate_id(StrOf(rows[i].round) \o <<"_">> \o rows[i].home_team_sanitized
                                \o <<"_">> \o standings_csv_file)]]

process_season_games(fs, order, pick, league_name, season_year) ==
    IF \A f \in DOMAIN fs : fs[f] = <<>>
    THEN None
    ELSE WithSeasonIds(ConcatImputed(fs, order, pick), league_name, season_year)

\* The principal team _impute_audience may choose in each file.
PrincipalChoices(fs) ==
    {pick \in [DOMAIN fs -> {sanitize_filename(n) : n \in TeamNames} \cup {<<>>}] :
        \A f \in DOMAIN fs :
            IF fs[f] = <<>> THEN pick[f] = <<>>
            ELSE pick[f] \in Principals(WithFileColumns(fs[f], f))}

-----------------------------------------------------------------------------
(* The reconciliation of one season *)

\* A team_url as fetch_league_standings builds it (parsers.py:63-65), with
\* the year the site embeds in it.
UrlOf(y) == <<"/", "f", "c", "/">> \o SaisonIdPrefix \o StrOf(y)

\* The standings file of the season: data/raw/liga/2022/final_standings/
\* liga_2022_standings.csv, with a row for each of the two teams.
ReconLeague == <<"l", "i", "g", "a">>
ReconYear == 2022
ReconStem == ReconLeague \o <<"_">> \o StrOf(ReconYear) \o <<"_">> \o StandingsSuffix
ReconStandings ==
    [stem |-> ReconStem,
     rows |-> <<StandingsRow(1, <<"F", "C">>, UrlOf(2022)),
                StandingsRow(2, <<"S", "ã", "o", "-", "B">>, UrlOf(2022))>>]

InitRecon ==
    /\ FetchIdle
    /\ PipelineIdle
    /\ CodecIdle
    /\ PassIdle
    /\ standings = ReconStandings
    /\ team_games_dir \in BOOLEAN
    /\ assembled = <<>>
    /\ r_pc = "scraped"
    /\ files = [f \in FileNames |-> <<>>]
    /\ distinct_games = <<>>
    /\ summary = <<>>
    /\ season_games = <<>>
    /\ df = <<>>
    /\ home_df = <<>>

\* scraper/parsers.py:180-195 and scraper/main.py:95-101: the scraper has
\* written one more row to a team's file.
TeamFileRow ==
    /\ r_pc = "scraped"
    /\ team_games_dir
    /\ SumLen(files, FileNames) < MaxRows
    /\ \E f \in FileNames : \E row \in ReconRows :
          files' = [files EXCEPT ![f] = Append(@, row)]
    /\ UNCHANGED <<r_pc, distinct_games, summary, season_games>>
    /\ UNCHANGED <<fetchVars, pipeVars, seasonVars, imputeVars>>
    /\ UNCHANGED <<prepVars, codecVars, passVars>>

\* Line 95: "if distinct_games_df is None"
NoGameData_mut(dg) == FALSE
NoGameData(dg) == dg = None

\* Lines 68-76: the name of the standings file is parsed and the file read;
\* an exception or an empty file makes process_season_data return None.
StandingsReadable(std) ==
    /\ extract_metadata_from_filename(std.stem).kind = "returned"
    /\ std.rows # <<>>

\* process_season_data, lines 68-89: the season has no team_games directory
\* (or its standings cannot be read) and the function returns None.
NoSeasonData ==
    /\ r_pc = "scraped"
    /\ ~team_games_dir \/ ~StandingsReadable(standings)
    /\ summary' = None
    /\ r_pc' = "summarised"
    /\ UNCHANGED <<files, distinct_games, season_games>>
    /\ UNCHANGED <<fetchVars, pipeVars, seasonVars, imputeVars>>
    /\ UNCHANGED <<prepVars, codecVars, passVars>>

\* process_season_data, lines 86-97: the team files are consolidated; with
\* no rows at all the function returns None.
LoadAndConsolidate ==
    /\ r_pc = "scraped"
    /\ team_games_dir /\ StandingsReadable(standings)
    /\ \E order \in GlobOrders(FileNames) :
          distinct_games' = load_and_consolidate_games(files, order)
    /\ IF NoGameData(distinct_games')
          THEN summary' = None /\ r_pc' = "summarised"
          ELSE UNCHANGED summary /\ r_pc' = "consolidated"
    /\ UNCHANGED <<files, season_games>>
    /\ UNCHANGED <<fetchVars, pipeVars, seasonVars, imputeVars>>
    /\ UNCHANGED <<prepVars, codecVars, passVars>>

\* process_season_data, lines 99-127: the summary of the consolidated games.
SummariseSeason ==
    /\ r_pc = "consolidated"
    /\ \E s \in SeasonSummaries(distinct_games) :
          summary' = <<s @@ StandingsPart(standings,
                            extract_metadata_from_filename(standings.stem).value,
                            Cardinality(DOMAIN files), distinct_games)>>
    /\ r_pc' = "summarised"
    /\ UNCHANGED <<files, distinct_games, season_games>>
    /\ UNCHANGED <<fetchVars, pipeVars, seasonVars, imputeVars>>
    /\ UNCHANGED <<prepVars, codecVars, passVars>>

\* create_team_games_complete, lines 413-420: the season's team files are
\* imputed file by file and concatenated.
ProcessSeasonGames ==
    /\ r_pc = "summarised"
    /\ IF team_games_dir
       THEN \E order \in GlobOrders(FileNames) : \E pick \in PrincipalChoices(files) :
               season_games' = process_season_games(files, order, pick,
                                                     ReconLeague, ReconYear)
       ELSE season_games' = None
    /\ r_pc' = "done"
    /\ UNCHANGED <<files, distinct_games, summary>>
    /\ UNCHANGED <<fetchVars, pipeVars, seasonVars, imputeVars>>
    /\ UNCHANGED <<prepVars, codecVars, passVars>>

\* The final assembly: the standings rows are left-joined with the
\* attendance summaries on the season key (league_name, season_year); a
\* season without a summary takes the defaults, the percentage being 100.0
\* (in hundredths of a percent, as RoundPct).
AttendanceDefaults ==
    [num_total_games |-> 0,
     num_null_attendance_games |-> 0,
     pct_null_attendance_games |-> 100 * 100,
     is_valid_attendance |-> FALSE]

AttendancePart(s) ==
    [num_total_games |-> s.num_total_games,
     num_null_attendance_games |-> s.num_null_attendance_games,
     pct_null_attendance_games |-> s.pct_null_attendance_games,
     is_valid_attendance |-> s.is_valid_attendance]

AssembleSeason(std, summaries) ==
    LET meta == extract_metadata_from_filename(std.stem).value
        matches == {k \in 1..Len(summaries) :
                      /\ summaries[k].league_name = meta.league_name
                      /\ summaries[k].season_year = meta.season_year}
        att == IF matches = {} THEN AttendanceDefaults
               ELSE AttendancePart(summaries[CHOOSE k \in matches : TRUE])
    IN  [i \in 1..Len(std.rows) |->
            std.rows[i]
            @@ [league_name |-> meta.league_name, season_year |-> meta.season_year]
            @@ att]

FinalAssembly ==
    /\ r_pc = "done"
    /\ assembled' = AssembleSeason(standings, summary)
    /\ r_pc' = "assembled"
    /\ UNCHANGED <<standings, team_games_dir>>
    /\ UNCHANGED <<files, distinct_games, summary, season_games>>
    /\ UNCHANGED <<fetchVars, pipeVars, seasonVars, imputeVars>>
    /\ UNCHANGED <<codecVars, passVars>>

NextRecon ==
    \/ TeamFileRow
    \/ NoSeasonData
    \/ LoadAndConsolidate
    \/ SummariseSeason
    \/ ProcessSeasonGames
    \/ FinalAssembly

SpecRecon == InitRecon /\ [][NextRecon]_vars

-----------------------------------------------------------------------------
(* process_season_data on seasons of up to MaxGames distinct matches *)

MaxGames == 100

\* A consolidated season of total matches on different dates, of which the
\* first zeros have audience 0, the next missing have no audience and the
\* others a known one.
SeasonOf(total, zeros, missing) ==
    [i \in 1..total |->
        [round |-> i,
         date |-> i,
         home_team |-> <<"F", "C">>,
         away_team |-> OtherTeam(<<"F", "C">>),
         result |-> <<"1", ":", "0">>,
         audience |-> IF i <= zeros THEN 0
                      ELSE IF i <= zeros + missing THEN NaN ELSE 100,
         match_link |-> i]]

InitAttendance ==
    /\ FetchIdle
    /\ PipelineIdle
    /\ CodecIdle
    /\ PassIdle
    /\ standings = ReconStandings
    /\ team_games_dir = TRUE
    /\ assembled = <<>>
    /\ r_pc = "consolidated"
    /\ files = <<>>
    /\ \E total \in 1..MaxGames : \E unknown \in 0..total :
       \E missing \in {0, unknown \div 2, unknown} :
          distinct_games = SeasonOf(total, unknown - missing, missing)
    /\ summary = <<>>
    /\ season_games = <<>>
    /\ df = <<>>
    /\ home_df = <<>>

NextAttendance == SummariseSeason

SpecAttendance == InitAttendance /\ [][NextAttendance]_vars

-----------------------------------------------------------------------------
(* process_season_data on leagues of up to MaxStandingsRows teams *)

MaxStandingsRows == 21

\* A standings file of n teams whose URLs are of the season.
LeagueOf(n) ==
    [stem |-> ReconStem,
     rows |-> [i \in 1..n |-> StandingsRow(i, <<"T">> \o StrOf(i), UrlOf(2022))]]

\* Numbers of distinct matches around those of a single and of a double
\* round-robin of n teams.
GameCounts(n) ==
    {g \in {n * (n - 1) - 1, n * (n - 1), n * (n - 1) + 1,
            (n * (n - 1)) \div 2, n * n, n} : g >= 1}

InitRounds ==
    /\ FetchIdle
    /\ PipelineIdle
    /\ CodecIdle
    /\ PassIdle
    /\ r_pc = "consolidated"
    /\ files = <<>>
    /\ \E n \in 1..MaxStandingsRows :
          /\ standings = LeagueOf(n)
          /\ \E g \in GameCounts(n) : distinct_games = SeasonOf(g, 0, 0)
    /\ team_games_dir = TRUE
    /\ assembled = <<>>
    /\ summary = <<>>
    /\ season_games = <<>>
    /\ df = <<>>
    /\ home_df = <<>>

NextRounds == SummariseSeason

SpecRounds == InitRounds /\ [][NextRounds]_vars

-----------------------------------------------------------------------------
(* _impute_audience on one file of up to MaxFileRows rows *)

MaxFileRows == 3
ImputeDates == {1, 2, 3}
ImputeAudiences == {0, 100, 200}

ImputeRows ==
    {MatchRow(d, h, a, res) :
        d \in ImputeDates, h \in TeamNames, a \in ImputeAudiences, res \in Results}

InitImpute ==
    /\ FetchIdle
    /\ PipelineIdle
    /\ CodecIdle
    /\ PassIdle
    /\ standings = <<>>
    /\ team_games_dir = FALSE
    /\ assembled = <<>>
    /\ r_pc = "file_read"
    /\ files = <<>>
    /\ distinct_games = <<>>
    /\ summary = <<>>
    /\ season_games = <<>>
    /\ \E n \in 1..MaxFileRows : \E d \in [1..n -> ImputeRows] :
          df = WithFileColumns(d, "fc")
    /\ home_df = <<>>

\* _process_season_games, line 342: df = _impute_audience(df)
ImputeAudience ==
    /\ r_pc = "file_read"
    /\ \E principal \in Principals(df) : home_df' = impute_audience(df, principal)
    /\ r_pc' = "imputed"
    /\ UNCHANGED <<files, distinct_games, summary, season_games, df>>
    /\ UNCHANGED <<fetchVars, pipeVars, seasonVars>>
    /\ UNCHANGED <<prepVars, codecVars, passVars>>

NextImpute == ImputeAudience

SpecImpute == InitImpute /\ [][NextImpute]_vars

-----------------------------------------------------------------------------
(* Claims about the reconciliation *)

MatchTuple(r) == <<r.date, r.home_team, r.away_team, r.result>>

FileRowAt == {<<f, k>> : f \in FileNames, k \in 1..MaxRows + 1}
FileRows == {files[p[1]][p[2]] : p \in {q \in FileRowAt : q[2] <= Len(files[q[1]])}}
Consolidated == r_pc \in {"consolidated", "summarised", "done"}

\* C7: _load_and_consolidate_games returns exactly one row for each distinct
\* (date, home_team, away_team, result) found in a non-empty team file: no
\* two returned rows share the tuple, no tuple is lost, every returned row is
\* a row of a file, and deduplicating the result again changes nothing.
C7_OneRowPerMatch ==
    Consolidated =>
        /\ \A i, j \in 1..Len(distinct_games) :
              MatchTuple(distinct_games[i]) = MatchTuple(distinct_games[j]) => i = j
        /\ {MatchTuple(distinct_games[i]) : i \in 1..Len(distinct_games)}
              = {MatchTuple(r) : r \in FileRows}
        /\ \A i \in 1..Len(distinct_games) : distinct_games[i] \in FileRows
        /\ drop_duplicates(distinct_games) = distinct_games

C7_Witness ==
    /\ r_pc = "consolidated"
    /\ Len(distinct_games) = 2
    /\ SumLen(files, FileNames) = 3
    /\ \E r1 \in FileRows : \E r2 \in FileRows :
          MatchTuple(r1) = MatchTuple(r2) /\ r1.audience # r2.audience

UnknownAttendance(dg) ==
    {i \in 1..Len(dg) : dg[i].audience = 0 \/ dg[i].audience = NaN}

\* C8: is_valid_attendance is true iff strictly fewer than 5% of the season's
\* distinct matches have unknown attendance (0 or missing), that is iff
\* 100 * num_null_attendance_games < 5 * num_total_games; 4 of 100 gives
\* 4.0 and valid, 6 of 100 gives 6.0 and invalid, exactly 5% is invalid.
C8_ValidIffUnderFivePercent ==
    (r_pc = "summarised" /\ summary # None) =>
        LET s == summary[1] IN
        /\ s.num_total_games = Len(distinct_games)
        /\ s.num_null_attendance_games = Cardinality(UnknownAttendance(distinct_games))
        /\ s.is_valid_attendance
              <=> 100 * s.num_null_attendance_games < 5 * s.num_total_games
        /\ (s.num_total_games = 100 /\ s.num_null_attendance_games = 4)
              => (s.pct_null_attendance_games = 400 /\ s.is_valid_attendance)
        /\ (s.num_total_games = 100 /\ s.num_null_attendance_games = 6)
              => (s.pct_null_attendance_games = 600 /\ ~s.is_valid_attendance)
        /\ (20 * s.num_null_attendance_games = s.num_total_games)
              => (s.pct_null_attendance_games = 500 /\ ~s.is_valid_attendance)

C8_Witness ==
    /\ r_pc = "summarised"
    /\ summary # None
    /\ summary[1].num_total_games = 100
    /\ summary[1].num_null_attendance_games = 4
    /\ summary[1].is_valid_attendance
    /\ \E i \in 1..Len(distinct_games) : distinct_games[i].audience = NaN

ImputedColumnsNull(r) ==
    /\ r.audience_filled_fb = NaN
    /\ r.audience_filled_mean = NaN
    /\ r.audience_filled_median = NaN
    /\ r.audience_filled_mode = NaN

\* C9: for a season whose attendance is invalid, imputation is skipped: in
\* the team-games output every row of the season with unknown attendance has
\* a null in every imputed column.
C9_InvalidSeasonKeepsNulls ==
    (r_pc = "done" /\ summary # None /\ ~summary[1].is_valid_attendance) =>
        \A i \in 1..Len(season_games) :
            season_games[i].audience = 0 => ImputedColumnsNull(season_games[i])

\* The rows of home_df with a known attendance played before / after row i.
KnownBefore(i) ==
    {j \in 1..Len(home_df) : home_df[j].audience # 0 /\ home_df[j].date < home_df[i].date}
KnownAfter(i) ==
    {j \in 1..Len(home_df) : home_df[j].audience # 0 /\ home_df[j].date > home_df[i].date}
Latest(S) == CHOOSE j \in S : \A k \in S : home_df[k].date <= home_df[j].date
Earliest(S) == CHOOSE j \in S : \A k \in S : home_df[j].date <= home_df[k].date

DatesDistinct ==
    \A i, j \in 1..Len(home_df) : home_df[i].date = home_df[j].date => i = j

\* C10: audience_filled_fb is the forward-fill then backward-fill of the
\* attendance in chronological order: a known attendance is kept, an unknown
\* one takes the value of the nearest earlier match with known attendance,
\* or of the first later one when there is no earlier one, and the column is
\* all null iff no row has a known attendance. (Stated for matches played on
\* different dates.)
C10_FillIsChronological ==
    (r_pc = "imputed" /\ DatesDistinct) =>
        /\ \A i \in 1..Len(home_df) :
              IF home_df[i].audience # 0
              THEN home_df[i].audience_filled_fb = home_df[i].audience
              ELSE IF KnownBefore(i) # {}
              THEN home_df[i].audience_filled_fb = home_df[Latest(KnownBefore(i))].audience
              ELSE IF KnownAfter(i) # {}
              THEN home_df[i].audience_filled_fb = home_df[Earliest(KnownAfter(i))].audience
              ELSE home_df[i].audience_filled_fb = NaN
        /\ (\A i \in 1..Len(home_df) : home_df[i].audience_filled_fb = NaN)
              <=> (\A i \in 1..Len(home_df) : home_df[i].audience = 0)

-----------------------------------------------------------------------------
(* validate_url_year and extract_metadata_from_filename on their own *)

\* The URLs the model calls validate_url_year with, each with the year it
\* embeds as saison_id/<4 digits> (<<y>>) or with <<>> when it embeds none.
UrlYears == {2019, 2020, 2021, 2022, 2023}
SeasonYears == {2020, 2021, 2022}

UrlCases ==
    UNION {{[url |-> UrlOf(y), embedded |-> <<y>>],
            [url |-> UrlOf(y) \o <<"/", "x">>, embedded |-> <<y>>],
            [url |-> UrlOf(y) \o <<"5">>, embedded |-> <<y>>]} : y \in UrlYears}
    \cup {[url |-> <<"/">> \o SaisonIdPrefix \o <<"2", "0", "2">>, embedded |-> <<>>],
          [url |-> <<"/">> \o SaisonIdPrefix \o <<"a", "b", "c", "d">>, embedded |-> <<>>],
          [url |-> <<"/", "f", "c", "/", "2", "0", "2", "1">>, embedded |-> <<>>],
          [url |-> <<"s", "a", "i", "s", "o", "n", "_", "i", "d", "2", "0", "2", "1">>, embedded |-> <<>>],
          [url |-> SaisonIdPrefix \o <<"2", "0", "x", "/">> \o SaisonIdPrefix \o StrOf(2021),
           embedded |-> <<2021>>],
          [url |-> NoUrl, embedded |-> <<>>]}

\* The stems the model calls extract_metadata_from_filename with: a league
\* part, a year part and a tail joined by "_". A stem follows the naming
\* contract when its three parts do.
GoodLeagues == {<<"l", "i", "g", "a">>, <<"g", "b", "1">>}
BadLeagues == {<<"l", "i", "-", "g", "a">>}
GoodYearParts == {<<"2", "0", "2", "2">>, <<"1", "9", "9", "9">>}
BadYearParts == {<<"2", "2">>, <<"2", "0", "2", "2", "5">>}
GoodTails == {<<"s", "t", "a", "n", "d", "i", "n", "g", "s">>, <<"f", "c">>, <<"s", "a", "o", "b">>}
BadTails == {<<"s", "t", "a", "n", "d", "i", "n", "g", "s", "_", "o", "l", "d">>, <<"o", "l", "d", "_", "s", "t", "a", "n", "d", "i", "n", "g", "s">>,
             <<"f", "c", "-", "x">>, <<"f", "c", "_", "b">>, <<>>}

StemCases ==
    {[stem |-> l \o <<"_">> \o y \o <<"_">> \o tl,
      conforms |-> l \in GoodLeagues /\ y \in GoodYearParts /\ tl \in GoodTails,
      league |-> l,
      season |-> IntOf(y)] :
        l \in GoodLeagues \cup BadLeagues,
        y \in GoodYearParts \cup BadYearParts,
        tl \in GoodTails \cup BadTails}

\* scraper/main.py:48, 73-76 and 95-99: the stems of the standings file and
\* of a team's games file that run_scraper_for_season writes.
standings_path(league_slug, season_year) ==
    sanitize_filename(league_slug) \o <<"_">> \o StrOf(season_year) \o <<"_">> \o StandingsSuffix

output_path(league_slug, season_year, team_name) ==
    sanitize_filename(league_slug) \o <<"_">> \o StrOf(season_year) \o <<"_">>
        \o sanitize_filename(team_name)

\* The league slugs and team names the written stems are read back for.
LeagueSlugs == {<<"s", "e", "r", "i", "e", "-", "a">>, <<"l", "i", "g", "a", "1">>, <<"j", "_", "l">>}
WrittenTeams ==
    {<<"F", "C">>, <<"S", "ã", "o", " ", "B">>, <<"A", "_", "B">>, <<"ß">>,
     <<"S", "t", "a", "n", "d", "i", "n", "g", "s", " ", "F", "C">>}

InitCodec ==
    /\ FetchIdle
    /\ PipelineIdle
    /\ ReconIdle
    /\ PassIdle
    /\ c_pc = "called"
    /\ \/ \E c \in UrlCases : \E sy \in SeasonYears :
             arg = [fn |-> "validate_url_year", url |-> c.url,
                    season_year |-> sy, embedded |-> c.embedded]
       \/ \E c \in StemCases :
             arg = [fn |-> "extract_metadata_from_filename", stem |-> c.stem,
                    conforms |-> c.conforms, league |-> c.league, season |-> c.season]
       \/ \E s \in LeagueSlugs : \E y \in SeasonYears : \E n \in WrittenTeams :
             arg = [fn |-> "run_scraper_for_season", league_slug |-> s,
                    season_year |-> y, team_name |-> n]
    /\ ret = <<>>

ValidateUrlYear ==
    /\ c_pc = "called"
    /\ arg.fn = "validate_url_year"
    /\ ret' = Returned(validate_url_year(arg.url, arg.season_year))
    /\ c_pc' = "returned"
    /\ UNCHANGED <<arg, fetchVars, pipeVars, seasonVars, reconVars, imputeVars>>
    /\ UNCHANGED <<prepVars, passVars>>

ExtractMetadata ==
    /\ c_pc = "called"
    /\ arg.fn = "extract_metadata_from_filename"
    /\ ret' = extract_metadata_from_filename(arg.stem)
    /\ c_pc' = ret'.kind
    /\ UNCHANGED <<arg, fetchVars, pipeVars, seasonVars, reconVars, imputeVars>>
    /\ UNCHANGED <<prepVars, passVars>>

\* The two files of one team of a season are written by the scraper and
\* their names are read by the reconciliation.
WriteAndExtract ==
    /\ c_pc = "called"
    /\ arg.fn = "run_scraper_for_season"
    /\ ret' = Returned(
          [standings |-> extract_metadata_from_filename(
                             standings_path(arg.league_slug, arg.season_year)),
           games |-> extract_metadata_from_filename(
                         output_path(arg.league_slug, arg.season_year, arg.team_name))])
    /\ c_pc' = "returned"
    /\ UNCHANGED <<arg, fetchVars, pipeVars, seasonVars, reconVars, imputeVars>>
    /\ UNCHANGED <<prepVars, passVars>>

NextCodec ==
    \/ ValidateUrlYear
    \/ ExtractMetadata
    \/ WriteAndExtract

SpecCodec == InitCodec /\ [][NextCodec]_vars

-----------------------------------------------------------------------------
(* The passes over data/raw: process_standings_data (pre_processor/main.py), *)
(* create_standings_summary, create_standings_complete and                  *)
(* create_team_games_complete (pre_processor/processors.py)                 *)

PassNames ==
    {"process_standings_data", "create_standings_summary",
     "create_standings_complete", "create_team_games_complete"}

\* The classes of an exception: its own and those it inherits from
\* (pandas.errors.EmptyDataError and ParserError derive from ValueError).
ExceptionBases(exc) ==
    CASE exc = "FileNotFoundError" -> {"FileNotFoundError", "OSError", "Exception"}
      [] exc = "EmptyDataError" -> {"EmptyDataError", "ValueError", "Exception"}
      [] exc = "ParserError" -> {"ParserError", "ValueError", "Exception"}
      [] exc = "KeyError" -> {"KeyError", "LookupError", "Exception"}
      [] exc = "ValueError" -> {"ValueError", "Exception"}

\* The except clauses around the code that handles one file: main.py:112-124,
\* processors.py:129-137 (inside process_season_data), 224 and 346.
Handlers(pass) ==
    CASE pass = "process_standings_data" ->
            {"FileNotFoundError", "EmptyDataError", "ParserError", "ValueError"}
      [] pass = "create_standings_summary" ->
            {"FileNotFoundError", "EmptyDataError", "Exception"}
      [] pass = "create_standings_complete" -> {"Exception"}
      [] pass = "create_team_games_complete" -> {"Exception"}

Caught(pass, exc) == ExceptionBases(exc) \cap Handlers(pass) # {}

\* What a CSV file found by glob may be: "ok", gone when it is read
\* ("missing"), of zero bytes ("empty"), a header without rows
\* ("header_only"), not parseable ("malformed"), without a column the code
\* reads while it handles the file ("no_column": team, team_url, home_team),
\* or without a column only the code after the loop reads
\* ("no_late_column": position in generate_standings_json, coach in
\* _process_season_games).
DataContents == {"ok", "no_column", "no_late_column"}
LatePasses == {"process_standings_data", "create_team_games_complete"}
Contents(pass) ==
    {"ok", "missing", "empty", "header_only", "malformed", "no_column"}
    \cup (IF pass \in LatePasses THEN {"no_late_column"} ELSE {})

\* pd.read_csv(file, encoding="utf-8")
read_csv(file) ==
    CASE file.content = "missing" -> Raised("FileNotFoundError")
      [] file.content = "empty" -> Raised("EmptyDataError")
      [] file.content = "malformed" -> Raised("ParserError")
      [] OTHER -> Returned(file.rows)

\* main.py:19-34: extract_metadata_from_filename of pre_processor/main.py,
\* which knows the standings pattern only.
extract_metadata_main(filename) ==
    IF StandingsMatch(filename) # <<>>
    THEN Returned([league_name |-> StandingsMatch(filename)[1].league_name,
                   season_year |-> StandingsMatch(filename)[1].season_year])
    ELSE Raised("ValueError")

\* What handling one file comes to: a frame is appended (late tells whether
\* it has the columns the code after the loop reads), the file is skipped
\* by "continue" or "return None", or an exception is raised.
Frame(rows, late) == [kind |-> "frame", rows |-> rows, late |-> late]
Skipped == [kind |-> "skipped"]

\* main.py:87-109
StandingsDataFile(file) ==
    LET meta == extract_metadata_main(file.stem)
        csv == read_csv(file)
    IN  IF meta.kind = "raised" THEN meta
        ELSE IF csv.kind = "raised" THEN csv
        ELSE IF csv.value = <<>> THEN Skipped
        ELSE IF file.content = "no_column" THEN Raised("KeyError")
        ELSE Frame([i \in 1..Len(csv.value) |->
                      csv.value[i] @@
                      [csv_file_name |-> FileName(file.stem),
                       league_name |-> meta.value.league_name,
                       season_year |-> meta.value.season_year,
                       team_sanitized |-> sanitize_filename(csv.value[i].team),
                       is_valid_url |-> validate_url_year(csv.value[i].team_url,
                                                          meta.value.season_year)]],
                   file.content # "no_late_column")

\* processors.py:68-127: process_season_data, for a season whose team_games
\* directory holds num_files files that consolidate to file.games. The file's
\* matches have no tie in the rounding of the percentage.
SeasonDataFile(file) ==
    LET meta == extract_metadata_from_filename(file.stem)
        csv == read_csv(file)
    IN  IF meta.kind = "raised" THEN meta
        ELSE IF csv.kind = "raised" THEN csv
        ELSE IF csv.value = <<>> THEN Skipped
        ELSE IF file.content = "no_column" THEN Raised("KeyError")
        ELSE IF ~file.team_games_dir THEN Skipped
        ELSE IF NoGameData(file.games) THEN Skipped
        ELSE Frame(<<(CHOOSE s \in SeasonSummaries(file.games) : TRUE) @@
                     StandingsPart([stem |-> file.stem, rows |-> csv.value],
                                   meta.value, file.num_files, file.games)>>,
                   TRUE)

\* processors.py:205-215: the id of a standings row.
StandingsRowId(team_sanitized, source_csv_file) ==
    generate_id(team_sanitized \o <<"_">> \o source_csv_file)

\* processors.py:197-221
StandingsCompleteFile(file) ==
    LET csv == read_csv(file) IN
    IF csv.kind = "raised" THEN csv
    ELSE IF csv.value = <<>> THEN Skipped
    ELSE LET meta == extract_metadata_from_filename(file.stem) IN
         IF meta.kind = "raised" THEN meta
         ELSE IF file.content = "no_column" THEN Raised("KeyError")
         ELSE Frame([i \in 1..Len(csv.value) |->
                       csv.value[i] @@
                       [team_sanitized |-> sanitize_filename(csv.value[i].team),
                        league_name |-> meta.value.league_name,
                        season_year |-> meta.value.season_year,
                        source_csv_file |-> FileName(file.stem),
                        source_id |-> generate_id(FileName(file.stem)),
                        id |-> StandingsRowId(sanitize_filename(csv.value[i].team),
                                              FileName(file.stem))]],
                    TRUE)

\* processors.py:333-344. The files of the passes have one most frequent
\* home team each.
TeamGamesFile(file) ==
    LET csv == read_csv(file) IN
    IF csv.kind = "raised" THEN csv
    ELSE IF csv.value = <<>> THEN Skipped
    ELSE IF file.content = "no_column" THEN Raised("KeyError")
    ELSE LET d == WithFileColumns(csv.value, FileName(file.stem)) IN
         Frame(impute_audience(d, CHOOSE pr \in Principals(d) : TRUE),
               file.content # "no_late_column")

FileStep(pass, file) ==
    CASE pass = "process_standings_data" -> StandingsDataFile(file)
      [] pass = "create_standings_summary" -> SeasonDataFile(file)
      [] pass = "create_standings_complete" -> StandingsCompleteFile(file)
      [] pass = "create_team_games_complete" -> TeamGamesFile(file)

\* pd.concat(frames, ignore_index=True)
RECURSIVE ConcatRows(_)
ConcatRows(fr) == IF fr = <<>> THEN <<>> ELSE Head(fr).rows \o ConcatRows(Tail(fr))

\* main.py:155: "filtered_df = df.loc[df["is_valid_url"] == True]"
JsonFilter_mut(row) == TRUE
JsonFilter(row) == row.is_valid_url

\* main.py:155-170: the nested dictionary, as the set of its
\* <<league, season, team, position>> entries. A later row of the same
\* league, season and team replaces the entry of an earlier one.
generate_standings_json(unified) ==
    LET kept == {i \in 1..Len(unified) : JsonFilter(unified[i])}
        KeyOf(i) == <<unified[i].league_name, unified[i].season_year,
                      unified[i].team_sanitized>>
        last == {i \in kept : \A j \in kept : KeyOf(j) = KeyOf(i) => j <= i}
    IN  {<<unified[i].league_name, unified[i].season_year,
           unified[i].team_sanitized, unified[i].position>> : i \in last}

\* The code after the loop reads a column that no appended frame has:
\* row["position"] (main.py:168) once a row passes the filter,
\* season_df["coach"] (processors.py:358).
LateKeyError(pass, fr) ==
    /\ pass \in LatePasses
    /\ fr # <<>>
    /\ \A i \in 1..Len(fr) : ~fr[i].late
    /\ pass = "process_standings_data" =>
          \E i \in 1..Len(ConcatRows(fr)) : JsonFilter(ConcatRows(fr)[i])

\* processors.py:231-248 and 428-453: final_schema
StandingsSchema ==
    {"position", "team", "team_sanitized", "played", "won", "drawn", "lost",
     "goal_ratio", "goal_difference", "points", "team_url", "league_name",
     "season_year", "source_csv_file", "source_id", "id"}

TeamGamesSchema ==
    {"round", "date", "time", "datetime", "home_team", "home_team_sanitized",
     "away_team", "away_team_sanitized", "formation", "coach", "coach_sanitized",
     "result", "audience", "audience_filled_fb", "audience_filled_mean",
     "audience_filled_mode", "audience_filled_median", "league_name",
     "season_year", "source_csv_file", "standings_csv_file", "source_id",
     "standings_id", "id"}

\* final_df.reindex(columns=final_schema): the columns of the frame that
\* the schema names; the others are dropped.
Reindex(rows, schema) ==
    [i \in 1..Len(rows) |->
        [c \in (DOMAIN rows[i]) \cap schema |-> rows[i][c]]]

\* What the pass returns or writes: the rows of its table and, for
\* process_standings_data, the entries of the JSON document.
PassResult_mut(pass, fr) ==
    [rows |-> IF pass = "create_team_games_complete" /\ fr # <<>>
              THEN Reindex(WithSeasonIds(ConcatRows(fr), ReconLeague, ReconYear),
                           TeamGamesSchema)
              ELSE IF pass = "create_standings_complete"
              THEN Reindex([i \in 1..Len(ConcatRows(fr)) |->
                              [ConcatRows(fr)[i] EXCEPT !.id = generate_id(StrOf(i))]],
                           StandingsSchema)
              ELSE ConcatRows(fr),
     json |-> IF pass = "process_standings_data"
              THEN generate_standings_json(ConcatRows(fr))
              ELSE {}]
PassResult(pass, fr) ==
    [rows |-> IF pass = "create_team_games_complete" /\ fr # <<>>
              THEN Reindex(WithSeasonIds(ConcatRows(fr), ReconLeague, ReconYear),
                           TeamGamesSchema)
              ELSE IF pass = "create_standings_complete"
              THEN Reindex(ConcatRows(fr), StandingsSchema)
              ELSE ConcatRows(fr),
     json |-> IF pass = "process_standings_data"
              THEN generate_standings_json(ConcatRows(fr))
              ELSE {}]

\* Bound of the model: the number of files a pass finds.
NumRawFiles == 2

TeamOf(i) == <<"T">> \o StrOf(i)
BadLeague == <<"l", "i", "-", "g", "a">>

\* The standings file of the i-th season directory, or the i-th team file
\* of the season directory liga/2022.
StandingsStem(league, y) == league \o <<"_">> \o StrOf(y) \o <<"_">> \o StandingsSuffix
TeamStem(i) ==
    ReconLeague \o <<"_">> \o StrOf(ReconYear) \o <<"_">> \o sanitize_filename(TeamOf(i))

StandingsRowsOf(y) ==
    <<StandingsRow(1, <<"F", "C">>, UrlOf(y)),
      StandingsRow(2, <<"S", "ã", "o", "-", "B">>, UrlOf(y))>>

PassFiles(pass, i) ==
    IF pass = "create_team_games_complete"
    THEN {[stem |-> TeamStem(i),
           content |-> c,
           rows |-> IF c \in DataContents
                    THEN <<MatchRow(1, TeamOf(i), 100, <<"1", ":", "0">>)>>
                    ELSE <<>>] : c \in Contents(pass)}
    ELSE {[stem |-> StandingsStem(l, ReconYear + 1 - i),
           content |-> c,
           rows |-> IF c \in DataContents
                    THEN StandingsRowsOf(ReconYear + 1 - i)
                    ELSE <<>>,
           team_games_dir |-> TRUE,
           num_files |-> 2,
           games |-> SeasonOf(2, 0, 0)] :
              l \in {ReconLeague, BadLeague}, c \in Contents(pass)}

InitPass ==
    /\ FetchIdle
    /\ PipelineIdle
    /\ ReconIdle
    /\ CodecIdle
    /\ q_pc = "files"
    /\ pass_name \in PassNames
    /\ raw \in {r \in [1..NumRawFiles ->
                        UNION {PassFiles(pass_name, i) : i \in 1..NumRawFiles}] :
                  \A i \in 1..NumRawFiles : r[i] \in PassFiles(pass_name, i)}
    /\ fi = 1
    /\ frames = <<>>
    /\ output = <<>>

\* The file is read and its frame appended.
FileAppended ==
    /\ q_pc = "files"
    /\ fi <= Len(raw)
    /\ FileStep(pass_name, raw[fi]).kind = "frame"
    /\ frames' = Append(frames, FileStep(pass_name, raw[fi]))
    /\ fi' = fi + 1
    /\ UNCHANGED <<q_pc, pass_name, raw, output>>
    /\ UNCHANGED <<fetchVars, pipeVars, seasonVars, reconVars, imputeVars>>
    /\ UNCHANGED <<prepVars, codecVars>>

\* The file has no rows (or, in process_season_data, its season no matches).
FileSkipped ==
    /\ q_pc = "files"
    /\ fi <= Len(raw)
    /\ FileStep(pass_name, raw[fi]).kind = "skipped"
    /\ fi' = fi + 1
    /\ UNCHANGED <<q_pc, pass_name, raw, frames, output>>
    /\ UNCHANGED <<fetchVars, pipeVars, seasonVars, reconVars, imputeVars>>
    /\ UNCHANGED <<prepVars, codecVars>>

\* Handling the file raises and an except clause of the loop catches it.
FileErrorCaught ==
    /\ q_pc = "files"
    /\ fi <= Len(raw)
    /\ FileStep(pass_name, raw[fi]).kind = "raised"
    /\ Caught(pass_name, FileStep(pass_name, raw[fi]).value)
    /\ fi' = fi + 1
    /\ UNCHANGED <<q_pc, pass_name, raw, frames, output>>
    /\ UNCHANGED <<fetchVars, pipeVars, seasonVars, reconVars, imputeVars>>
    /\ UNCHANGED <<prepVars, codecVars>>

\* Handling the file raises and no except clause of the loop catches it: the
\* exception leaves the pass.
FileErrorPropagates ==
    /\ q_pc = "files"
    /\ fi <= Len(raw)
    /\ FileStep(pass_name, raw[fi]).kind = "raised"
    /\ ~Caught(pass_name, FileStep(pass_name, raw[fi]).value)
    /\ q_pc' = "aborted"
    /\ UNCHANGED <<pass_name, raw, fi, frames, output>>
    /\ UNCHANGED <<fetchVars, pipeVars, seasonVars, reconVars, imputeVars>>
    /\ UNCHANGED <<prepVars, codecVars>>

\* The loop is over and the frames are concatenated.
PassFinish ==
    /\ q_pc = "files"
    /\ fi > Len(raw)
    /\ ~LateKeyError(pass_name, frames)
    /\ output' = Append(output, PassResult(pass_name, frames))
    /\ q_pc' = "finished"
    /\ UNCHANGED <<pass_name, raw, fi, frames>>
    /\ UNCHANGED <<fetchVars, pipeVars, seasonVars, reconVars, imputeVars>>
    /\ UNCHANGED <<prepVars, codecVars>>

\* The loop is over and the code after it raises KeyError.
PassFinishRaises ==
    /\ q_pc = "files"
    /\ fi > Len(raw)
    /\ LateKeyError(pass_name, frames)
    /\ q_pc' = "aborted"
    /\ UNCHANGED <<pass_name, raw, fi, frames, output>>
    /\ UNCHANGED <<fetchVars, pipeVars, seasonVars, reconVars, imputeVars>>
    /\ UNCHANGED <<prepVars, codecVars>>

NextPass ==
    \/ FileAppended
    \/ FileSkipped
    \/ FileErrorCaught
    \/ FileErrorPropagates
    \/ PassFinish
    \/ PassFinishRaises

SpecPass == InitPass /\ [][NextPass]_vars

-----------------------------------------------------------------------------
(* Two runs of a pass over the same clean files *)

\* The rows a standings file of season y may hold: every team_url of the
\* season, one of the next season, or one missing.
StandingsVariants(y) ==
    {StandingsRowsOf(y),
     <<StandingsRow(1, <<"F", "C">>, UrlOf(y)),
       StandingsRow(2, <<"S", "ã", "o", "-", "B">>, UrlOf(y + 1))>>,
     <<StandingsRow(1, <<"F", "C">>, NoUrl),
       StandingsRow(2, <<"S", "ã", "o", "-", "B">>, UrlOf(y))>>}

\* The consolidated matches a season of two teams may have: both matches
\* with attendance, one match only, both matches and one without
\* attendance, or none at all.
GameVariants == {SeasonOf(2, 0, 0), SeasonOf(1, 0, 0), SeasonOf(2, 1, 0), None}

TableFiles(pass, i) ==
    IF pass = "create_team_games_complete"
    THEN {[stem |-> TeamStem(i),
           content |-> "ok",
           rows |-> <<MatchRow(1, TeamOf(i), a1, <<"1", ":", "0">>),
                      MatchRow(2, TeamOf(i), a2, <<"1", ":", "0">>)>>] :
              a1 \in ReconAudiences, a2 \in ReconAudiences}
    ELSE {[stem |-> StandingsStem(ReconLeague, ReconYear + 1 - i),
           content |-> "ok",
           rows |-> rws,
           team_games_dir |-> TRUE,
           num_files |-> 2,
           games |-> g] :
              rws \in StandingsVariants(ReconYear + 1 - i), g \in GameVariants}

InitTables ==
    /\ FetchIdle
    /\ PipelineIdle
    /\ ReconIdle
    /\ CodecIdle
    /\ q_pc = "files"
    /\ pass_name \in PassNames
    /\ raw \in {r \in [1..NumRawFiles ->
                        UNION {TableFiles(pass_name, i) : i \in 1..NumRawFiles}] :
                  \A i \in 1..NumRawFiles : r[i] \in TableFiles(pass_name, i)}
    /\ fi = 1
    /\ frames = <<>>
    /\ output = <<>>

\* The pass is run a second time; iterdir, glob and rglob may yield the
\* files in another order.
PassRestart ==
    /\ q_pc = "finished"
    /\ Len(output) < 2
    /\ \E order \in GlobOrders(1..Len(raw)) :
          raw' = [i \in 1..Len(raw) |-> raw[order[i]]]
    /\ fi' = 1
    /\ frames' = <<>>
    /\ q_pc' = "files"
    /\ UNCHANGED <<pass_name, output>>
    /\ UNCHANGED <<fetchVars, pipeVars, seasonVars, reconVars, imputeVars>>
    /\ UNCHANGED <<prepVars, codecVars>>

NextTables ==
    \/ FileAppended
    \/ FileSkipped
    \/ PassFinish
    \/ PassRestart

SpecTables == InitTables /\ [][NextTables]_vars

-----------------------------------------------------------------------------
(* scraper/parsers.py: the two table extractors on a fetched document *)

MaxTableRows == 4

\* "if len(cols) < 10" (line 52) and "if len(cols) >= 11" (line 134)
MinStandingsCols == 10
MinGameCols == 11

\* The <tr> elements of a table, the header first: the number of <td> cells
\* of each and whether its second cell holds an anchor with an href.
StandingsTrs ==
    UNION {[1..n -> [cells : {MinStandingsCols - 1, MinStandingsCols, MinStandingsCols + 1},
                     anchor : BOOLEAN]] : n \in 0..MaxTableRows}

GameTrs ==
    UNION {[1..n -> [cells : {MinGameCols - 1, MinGameCols}]] : n \in 0..MaxTableRows}

\* A standings page: whether it has a <table class="items">, and its rows.
StandingsDocuments ==
    {[fn |-> "fetch_league_standings", table |-> FALSE, rows |-> <<>>]}
    \cup {[fn |-> "fetch_league_standings", table |-> TRUE, rows |-> trs] :
             trs \in StandingsTrs}

\* A schedule page: whether it has the <div id=league_code> and a table in
\* it, whether an <h2> contains the league name and a table follows the
\* first such heading, and the rows of the table that is found.
ScheduleDocuments ==
    {[fn |-> "fetch_team_games", section |-> s, section_table |-> st,
      h2_match |-> h, h2_table |-> ht, rows |-> trs] :
         s \in BOOLEAN, st \in BOOLEAN, h \in BOOLEAN, ht \in BOOLEAN,
         trs \in GameTrs}

EnoughCols_mut(n) == n > MinStandingsCols
EnoughCols(n) == n >= MinStandingsCols

\* Lines 50-80: the rows from the i-th <tr> on. The text of the first cell
\* of the i-th <tr> is i; the team_url is None without an anchor.
RECURSIVE StandingsFrom(_, _)
StandingsFrom(trs, i) ==
    IF i > Len(trs) THEN <<>>
    ELSE (IF EnoughCols(trs[i].cells)
          THEN <<StandingsRow(i, <<"T">> \o StrOf(i),
                              IF trs[i].anchor THEN UrlOf(ReconYear) ELSE None)>>
          ELSE <<>>)
         \o StandingsFrom(trs, i + 1)

\* Lines 40-81
fetch_league_standings(doc) ==
    IF ~doc.table THEN Raised("ScrapingError")
    ELSE IF Len(doc.rows) < 2 THEN Returned(<<>>)
    ELSE Returned(StandingsFrom(doc.rows, 2))

\* Lines 131-193: the matches from the i-th <tr> on, each with the text of
\* its round cell.
RECURSIVE GamesFrom(_, _)
GamesFrom(trs, i) ==
    IF i > Len(trs) THEN <<>>
    ELSE (IF trs[i].cells >= MinGameCols THEN <<[round |-> i]>> ELSE <<>>)
         \o GamesFrom(trs, i + 1)

\* Lines 115-129: the schedule table, FALSE when find returns None; the
\* for-else raises when no heading contains the league name.
ScheduleTable(doc) ==
    IF ~doc.section
    THEN IF doc.h2_match THEN Returned(doc.h2_table) ELSE Raised("ValueError")
    ELSE Returned(doc.section_table)

\* Lines 112-195
fetch_team_games(doc) ==
    IF ScheduleTable(doc).kind = "raised" THEN ScheduleTable(doc)
    ELSE IF ~ScheduleTable(doc).value THEN Raised("ValueError")
    ELSE Returned(GamesFrom(doc.rows, 2))

\* scraper/main.py:106-109: the except clause of run_scraper_for_season that
\* takes the exception.
SeasonHandler(exc) ==
    IF exc = "ScrapingError" THEN "except ScrapingError" ELSE "except Exception"

\* The text of the attendance cell, stripped (line 160): digits, the
\* thousands separator, signs, an underscore and a letter.
MaxTextLen == 3
AudienceChars == {"0", "1", "5", ".", "-", "+", "_", "x"}
AudienceTexts == UNION {[1..n -> AudienceChars] : n \in 0..MaxTextLen}

\* str.replace(ch, "")
RECURSIVE RemoveChar(_, _)
RemoveChar(s, ch) ==
    IF s = <<>> THEN <<>>
    ELSE (IF Head(s) = ch THEN <<>> ELSE <<Head(s)>>) \o RemoveChar(Tail(s), ch)

\* What int() takes after the sign: digits, with single underscores
\* between digits.
IsIntBody(s) ==
    /\ s # <<>>
    /\ \A i \in 1..Len(s) : s[i] \in DigitChars \cup {"_"}
    /\ s[1] # "_"
    /\ s[Len(s)] # "_"
    /\ \A i \in 1..(Len(s) - 1) : ~(s[i] = "_" /\ s[i + 1] = "_")

\* int(s) of a string without white space.
PyInt(s) ==
    LET signed == s # <<>> /\ s[1] \in {"+", "-"}
        body == IF signed THEN Tail(s) ELSE s
    IN  IF ~IsIntBody(body) THEN Raised("ValueError")
        ELSE IF signed /\ s[1] = "-" THEN Returned(0 - IntOf(RemoveChar(body, "_")))
        ELSE Returned(IntOf(RemoveChar(body, "_")))

\* Lines 174-177: "int(audience_str.replace(".", "")) if audience_str else 0",
\* 0 on ValueError.
ParseAudience(text) ==
    IF text = <<>> THEN 0
    ELSE IF PyInt(RemoveChar(text, ".")).kind = "raised" THEN 0
    ELSE PyInt(RemoveChar(text, ".")).value

InitParse ==
    /\ FetchIdle
    /\ PipelineIdle
    /\ ReconIdle
    /\ PassIdle
    /\ c_pc = "called"
    /\ arg \in StandingsDocuments \cup ScheduleDocuments
                \cup {[fn |-> "audience", text |-> s] : s \in AudienceTexts}
    /\ ret = <<>>

FetchLeagueStandings ==
    /\ c_pc = "called"
    /\ arg.fn = "fetch_league_standings"
    /\ ret' = fetch_league_standings(arg)
    /\ c_pc' = ret'.kind
    /\ UNCHANGED <<arg, fetchVars, pipeVars, seasonVars, reconVars, imputeVars>>
    /\ UNCHANGED <<prepVars, passVars>>

FetchTeamGames ==
    /\ c_pc = "called"
    /\ arg.fn = "fetch_team_games"
    /\ ret' = fetch_team_games(arg)
    /\ c_pc' = ret'.kind
    /\ UNCHANGED <<arg, fetchVars, pipeVars, seasonVars, reconVars, imputeVars>>
    /\ UNCHANGED <<prepVars, passVars>>

\* fetch_team_games, lines 160-177: the audience of one row of the table.
ReadAudience ==
    /\ c_pc = "called"
    /\ arg.fn = "audience"
    /\ ret' = Returned(ParseAudience(arg.text))
    /\ c_pc' = "returned"
    /\ UNCHANGED <<arg, fetchVars, pipeVars, seasonVars, reconVars, imputeVars>>
    /\ UNCHANGED <<prepVars, passVars>>

NextParse ==
    \/ FetchLeagueStandings
    \/ FetchTeamGames
    \/ ReadAudience

SpecParse == InitParse /\ [][NextParse]_vars

-----------------------------------------------------------------------------
(* Claims about the season summary and the codecs *)

\* C11: in every summary process_season_data returns, num_total_teams is
\* the number of rows of the standings file, num_total_games the number of
\* deduplicated matches, and is_double_rounded is true iff
\* num_total_games = num_total_teams * (num_total_teams - 1); with 20 teams
\* it is true exactly at 380 matches.
C11_DoubleRoundedIffFullSchedule ==
    (r_pc = "summarised" /\ summary # None) =>
        LET s == summary[1] IN
        /\ s.num_total_teams = Len(standings.rows)
        /\ s.num_total_games = Len(distinct_games)
        /\ s.is_double_rounded
              <=> s.num_total_games = s.num_total_teams * (s.num_total_teams - 1)
        /\ s.num_total_teams = 20 => (s.is_double_rounded <=> s.num_total_games = 380)

C11_Witness ==
    /\ r_pc = "summarised"
    /\ summary # None
    /\ summary[1].num_total_teams = 20
    /\ summary[1].num_total_games = 380
    /\ summary[1].is_double_rounded

\* C12: validate_url_year(url, season_year) is true iff url is a string that
\* embeds a year as saison_id/<4 digits> and that year is <= season_year;
\* it is false for a later year, for a URL without such a year and for a
\* missing URL. saison_id/2021 is valid for 2022 and invalid for 2020.
C12_UrlYearAtMostSeason ==
    (c_pc = "returned" /\ arg.fn = "validate_url_year") =>
        /\ ret = Returned(arg.embedded # <<>> /\ arg.embedded[1] <= arg.season_year)
        /\ (arg.embedded = <<2021>> /\ arg.season_year = 2022) => ret.value
        /\ (arg.embedded = <<2021>> /\ arg.season_year = 2020) => ~ret.value
        /\ arg.url = NoUrl => ~ret.value

C12_Witness ==
    /\ c_pc = "returned"
    /\ arg.fn = "validate_url_year"
    /\ arg.embedded = <<arg.season_year>>
    /\ arg.url = UrlOf(arg.season_year) \o <<"/", "x">>
    /\ ret.value

\* C13: extract_metadata_from_filename matches the naming contract strictly:
\* it returns the league and the season for a stem that is exactly
\* {league}_{4 digits}_standings or {league}_{4 digits}_{team}, league and
\* team in [a-z0-9]+, and raises for every other stem, also for one that
\* only begins like a conforming stem.
C13_StrictFilenameMatch ==
    (c_pc \in {"returned", "raised"} /\ arg.fn = "extract_metadata_from_filename") =>
        IF arg.conforms
        THEN /\ ret.kind = "returned"
             /\ ret.value.league_name = arg.league
             /\ ret.value.season_year = arg.season
        ELSE ret.kind = "raised"

\* A file that parses cleanly: its name follows the contract, it can be read
\* and has rows and all the columns.
CleanFile(file) ==
    /\ file.content = "ok"
    /\ extract_metadata_from_filename(file.stem).kind = "returned"

\* The name of the file a row of a pass's result comes from.
SourceFileOf(pass, row) ==
    IF pass = "process_standings_data" THEN row.csv_file_name ELSE row.source_csv_file

\* C14: in every pass, an error of one file makes the pass skip that file
\* only: no such error leaves the pass, and the result of the pass has the
\* rows of every file that parses cleanly.
C14_FileErrorSkipsFileOnly ==
    /\ q_pc # "aborted"
    /\ q_pc = "finished" =>
          \A i \in 1..Len(raw) :
              CleanFile(raw[i]) =>
                  \E k \in 1..Len(output[1].rows) :
                      SourceFileOf(pass_name, output[1].rows[k]) = FileName(raw[i].stem)

IdPasses ==
    {"create_standings_summary", "create_standings_complete",
     "create_team_games_complete"}

RowsOfRun(n) == {output[n].rows[k] : k \in 1..Len(output[n].rows)}

\* The string the id of a row is documented to hash: the team, or the round
\* and the home team, with the name of the season's standings file.
NaturalKey(pass, row) ==
    IF pass = "create_standings_complete"
    THEN row.team_sanitized \o <<"_">> \o row.source_csv_file
    ELSE StrOf(row.round) \o <<"_">> \o row.home_team_sanitized
         \o <<"_">> \o row.standings_csv_file

\* C15: the identifiers depend on the natural key only. Two runs of a pass
\* over the same files, whatever the order in which each visits them, give
\* the same rows with the same id and source_id; the id of a row is
\* generate_id of its natural key, its source_id generate_id of the name of
\* its file, and two rows have the same id exactly when they have the same
\* natural key.
C15_IdsIndependentOfVisitOrder ==
    (Len(output) = 2 /\ pass_name \in IdPasses) =>
        /\ RowsOfRun(1) = RowsOfRun(2)
        /\ \A r \in RowsOfRun(1) \cup RowsOfRun(2) :
              r.source_id = generate_id(r.source_csv_file)
        /\ pass_name # "create_standings_summary" =>
              \A r1 \in RowsOfRun(1) : \A r2 \in RowsOfRun(2) :
                  /\ r1.id = generate_id(NaturalKey(pass_name, r1))
                  /\ r1.id = r2.id <=> NaturalKey(pass_name, r1) = NaturalKey(pass_name, r2)

C15_Witness ==
    /\ Len(output) = 2
    /\ pass_name = "create_standings_complete"
    /\ output[1].rows # output[2].rows
    /\ Len(output[1].rows) = 2 * NumRawFiles

\* The ids of a table are pairwise distinct.
DistinctIds(rows) ==
    \A i \in 1..Len(rows) : \A j \in 1..Len(rows) :
        rows[i].id = rows[j].id => i = j

\* C16: the id is a primary key. No two rows of the complete standings
\* table have the same id, and no two rows of the team-games table that
\* _process_season_games builds for a season have the same id.
C16_IdsArePrimaryKeys ==
    /\ (r_pc = "done" /\ season_games # None) => DistinctIds(season_games)
    /\ (q_pc = "finished" /\ pass_name \in IdPasses \ {"create_standings_summary"})
           => DistinctIds(output[Len(output)].rows)

\* The season of the reconciliation has no match data: no team_games
\* directory, or no team file with a row.
LacksMatchData ==
    ~team_games_dir \/ \A f \in DOMAIN files : files[f] = <<>>

\* C17: a season with standings and no match data is in the assembled
\* output, one row for each of its standings rows, with is_valid_attendance
\* false, both counts 0 and the percentage of null attendance 100.0; no
\* assembled row of a season without match data is attendance-valid.
C17_NoDataSeasonDefaultsInvalid ==
    (r_pc = "assembled" /\ LacksMatchData) =>
        /\ Len(assembled) = Len(standings.rows)
        /\ assembled # <<>>
        /\ \A i \in 1..Len(assembled) :
              /\ assembled[i].team = standings.rows[i].team
              /\ ~assembled[i].is_valid_attendance
              /\ assembled[i].num_total_games = 0
              /\ assembled[i].num_null_attendance_games = 0
              /\ assembled[i].pct_null_attendance_games = 100 * 100

C17_Witness ==
    /\ r_pc = "assembled"
    /\ team_games_dir
    /\ \A f \in DOMAIN files : files[f] = <<>>
    /\ summary = None
    /\ assembled # <<>>
    /\ ~assembled[1].is_valid_attendance

\* The entry a standings row has in the nested JSON document.
JsonEntry(row) == <<row.league_name, row.season_year, row.team_sanitized, row.position>>

JsonKey(e) == <<e[1], e[2], e[3]>>

UrlYearIsValid(row) == validate_url_year(row.team_url, row.season_year)

\* The season flags of a row: those process_season_data computes for the
\* season's standings file, false when it has no summary.
SeasonFlags(row) ==
    \E k \in 1..Len(raw) :
        /\ FileName(raw[k].stem) = row.csv_file_name
        /\ SeasonDataFile(raw[k]).kind = "frame"
        /\ SeasonDataFile(raw[k]).rows[1].is_double_rounded
        /\ SeasonDataFile(raw[k]).rows[1].is_valid_attendance

JsonRuns ==
    IF pass_name = "process_standings_data" THEN 1..Len(output) ELSE {}

UnifiedRows(n) == {output[n].rows[k] : k \in 1..Len(output[n].rows)}

FullDataRows == {i \in 2..Len(arg.rows) : arg.rows[i].cells >= 10}

\* C19: on a page with the standings table, fetch_league_standings returns
\* one row for each <tr> after the first that has at least 10 cells, in the
\* order of the table; shorter rows are left out without an error, and a
\* table of a header alone gives an empty result.
C19_OneRowPerFullDataRow ==
    (c_pc # "called" /\ arg.fn = "fetch_league_standings" /\ arg.table) =>
        /\ ret.kind = "returned"
        /\ Len(ret.value) = Cardinality(FullDataRows)
        /\ {ret.value[k].position : k \in 1..Len(ret.value)} = FullDataRows
        /\ \A k \in 1..Len(ret.value) : \A l \in 1..Len(ret.value) :
              k < l => ret.value[k].position < ret.value[l].position
        /\ Len(arg.rows) = 1 => ret.value = <<>>

C19_Witness ==
    /\ c_pc = "returned"
    /\ arg.fn = "fetch_league_standings"
    /\ Len(arg.rows) = 4
    /\ arg.rows[2].cells = 10
    /\ arg.rows[3].cells = 9
    /\ arg.rows[4].cells = 11
    /\ Len(ret.value) = 2

\* The table the extractor looks for is not in the document.
TableAbsent ==
    IF arg.fn = "fetch_league_standings" THEN ~arg.table
    ELSE IF arg.section THEN ~arg.section_table
    ELSE ~(arg.h2_match /\ arg.h2_table)

\* C20: when the table is not in the document, each extractor raises
\* ScrapingError, which run_scraper_for_season takes in the clause that
\* takes a fetch failure; neither returns nor raises another type.
C20_AbsentTableRaisesScrapingError ==
    (c_pc # "called" /\ arg.fn \in {"fetch_league_standings", "fetch_team_games"}
        /\ TableAbsent) =>
        /\ ret = Raised("ScrapingError")
        /\ SeasonHandler(ret.value) = "except ScrapingError"

\* C21: fetch_team_games uses the table of the league_code container when
\* the container has one and otherwise the table after the first heading
\* with the league name; it fails only if neither step gives a table.
C21_FailsOnlyIfNeitherStepFindsTable ==
    (c_pc # "called" /\ arg.fn = "fetch_team_games") =>
        (ret.kind = "raised"
            <=> (~(arg.section /\ arg.section_table)
                 /\ ~(arg.h2_match /\ arg.h2_table)))

\* The attendance text without its thousands separators.
Undotted == RemoveChar(arg.text, ".")

\* C22: the audience of a match row is a non-negative integer: the integer
\* the attendance text reads as once every "." is removed, and 0 when the
\* text is empty or is not an integer.
C22_AudienceNonNegative ==
    (c_pc = "returned" /\ arg.fn = "audience") =>
        /\ ret.value >= 0
        /\ (Undotted # <<>> /\ \A i \in 1..Len(Undotted) : Undotted[i] \in DigitChars)
              => ret.value = IntOf(Undotted)
        /\ arg.text = <<>> => ret.value = 0
        /\ (\E i \in 1..Len(arg.text) : arg.text[i] = "x") => ret.value = 0

\* The rows of the raw files of the pass.
RawRows == UNION {{raw[k].rows[i] : i \in 1..Len(raw[k].rows)} : k \in 1..Len(raw)}

\* The output row keeps every column of the raw row with its value.
KeepsFields(o, r) == \A c \in DOMAIN r : c \in DOMAIN o /\ o[c] = r[c]

\* C23: the complete standings table and the complete team-games table
\* hold, for every raw row, a row with every original column (position and
\* match_link among them) at its original value.
C23_OriginalFieldsPreserved ==
    (q_pc = "finished"
        /\ pass_name \in {"create_standings_complete", "create_team_games_complete"}) =>
        \A r \in RawRows :
            \E k \in 1..Len(output[Len(output)].rows) :
                KeepsFields(output[Len(output)].rows[k], r)

\* C24: whenever a request is the first after the requests of another
\* season, scraper_pipeline has slept at least 30 seconds since that
\* season's last request, and at least 120 seconds when the other season is
\* of another league, whatever seasons raised in between.
C24_PausesBetweenSeasonsAndLeagues ==
    \A g \in gaps :
        /\ g.kind = "season" => g.pause >= 30
        /\ g.kind = "league" => g.pause >= 120

C24_Witness ==
    /\ p_pc = "finished"
    /\ season_failed
    /\ \E g \in gaps : g.kind = "season"
    /\ \E g \in gaps : g.kind = "league"

\* C25: every call of fetch_soup ends, whatever the server answers: it
\* returns or raises ScrapingError, and it has issued at most MAX_RETRIES
\* requests at any moment.
C25_FetchTerminates ==
    /\ [](Cardinality(RequestIdx) <= MAX_RETRIES)
    /\ <>(f_pc \in {"returned", "raised"})

C25_Witness ==
    /\ f_pc = "raised"
    /\ Cardinality(RequestIdx) = MAX_RETRIES
    /\ \A i \in RequestIdx : log[i].val \in RetriableStatuses \cup {TransportError}
    /\ \E i \in RequestIdx : log[i].val = TransportError

FlagInvariant ==
    \A l \in 1..Len(leagues) :
        LET tried == SelectSeq(attempted, LAMBDA a : a[1] = l)
        IN  /\ leagues[l].processed \in {"true", "false"}
            /\ leagues_at_start[l].processed = "true" =>
                  /\ leagues[l].processed = "true"
                  /\ tried = <<>>
                  /\ last_request = <<>> \/ last_request[1] # l
            /\ leagues_at_start[l].processed = "false" =>
                  /\ IsPrefix(tried, SeasonsOf(l))
                  /\ leagues[l].processed = "true" =>
                        /\ tried = SeasonsOf(l)
                        /\ l < li \/ p_pc = "finished"
            /\ p_pc = "finished" => leagues[l].processed = "true"

FlagStep ==
    \A l \in 1..Len(leagues) :
        leagues[l].processed = "true" => leagues'[l].processed = "true"

\* C26: the "processed" flags only go from "false" to "true". A league
\* flagged "true" at the start is never requested and stays "true"; a league
\* flagged "false" has its seasons attempted in ascending order from
\* max(start_year, 1990) to 2024 and becomes "true" only once all of them
\* were attempted; when the run ends every league is "true", also when its
\* seasons failed.
C26_ProcessedFlagMonotonic ==
    [][FlagInvariant /\ FlagInvariant' /\ FlagStep]_vars

C26_Witness ==
    /\ p_pc = "finished"
    /\ season_failed
    /\ last_request = <<>>
    /\ \E l \in 1..Len(leagues) : leagues_at_start[l].processed = "true"
    /\ \E l \in 1..Len(leagues) :
          /\ leagues_at_start[l].processed = "false"
          /\ leagues_at_start[l].start_year < 1990
          /\ leagues[l].processed = "true"

-----------------------------------------------------------------------------
\* C27: the names run_scraper_for_season writes are read back by
\* extract_metadata_from_filename: the standings file as type "standings" and
\* the team file as type "games", with league_name = sanitize_filename(slug),
\* season_year = the season and team_sanitized_name = sanitize_filename(team).
C27_FilenameRoundTrip ==
    (c_pc = "returned" /\ arg.fn = "run_scraper_for_season") =>
        /\ ret.value.standings.kind = "returned"
        /\ ret.value.standings.value.type = "standings"
        /\ ret.value.standings.value.league_name = sanitize_filename(arg.league_slug)
        /\ ret.value.standings.value.season_year = arg.season_year
        /\ ret.value.games.kind = "returned"
        /\ ret.value.games.value.type = "games"
        /\ ret.value.games.value.league_name = sanitize_filename(arg.league_slug)
        /\ ret.value.games.value.season_year = arg.season_year
        /\ ret.value.games.value.team_sanitized_name = sanitize_filename(arg.team_name)

-----------------------------------------------------------------------------
\* The rows create_standings_complete makes of the season's standings file.
StandingsCompleteRows ==
    LET step == StandingsCompleteFile(standings @@ [content |-> "ok"])
    IN  IF step.kind = "frame" THEN step.rows ELSE <<>>

SameSeason(a, b) ==
    a.league_name = b.league_name /\ a.season_year = b.season_year

\* C28: for a season directory written by the scraper, the standings_id of
\* every row of the team-games table is the source_id of the standings rows
\* and of the summary of the same league and season: the name rebuilt from
\* the names of the league and year directories is the name of the standings
\* file the scraper wrote there.
C28_StandingsIdJoinsTables ==
    (r_pc \in {"done", "assembled"} /\ season_games # None) =>
        \A i \in 1..Len(season_games) :
            /\ \A k \in 1..Len(summary) :
                  SameSeason(summary[k], season_games[i]) =>
                      summary[k].source_id = season_games[i].standings_id
            /\ \A k \in 1..Len(StandingsCompleteRows) :
                  SameSeason(StandingsCompleteRows[k], season_games[i]) =>
                      StandingsCompleteRows[k].source_id = season_games[i].standings_id
            /\ \A s \in LeagueSlugs : \A y \in SeasonYears :
                  WithSeasonIds(<<[round |-> season_games[i].round,
                                   home_team_sanitized |-> season_games[i].home_team_sanitized,
                                   source_csv_file |-> season_games[i].source_csv_file]>>,
                                sanitize_filename(s), IntOf(StrOf(y)))[1].standings_id
                      = generate_id(FileName(standings_path(s, y)))

C28_Witness ==
    /\ r_pc = "done"
    /\ Len(season_games) >= 2
    /\ Len(summary) = 1
    /\ SameSeason(summary[1], season_games[1])
    /\ Len(StandingsCompleteRows) = 2
    /\ SameSeason(StandingsCompleteRows[1], season_games[1])
    /\ StandingsCompleteRows[1].source_id = season_games[1].standings_id

-----------------------------------------------------------------------------
\* The summary process_season_data would return had the team files been read
\* in the given order.
SummaryInOrder(order) ==
    LET dg == load_and_consolidate_games(files, order) IN
    [num_total_games |-> Len(dg),
     num_null_attendance_games |-> NumNullAttendance(dg),
     pct_null_attendance_games |-> RoundPct(PctNullAttendance(NumNullAttendance(dg), Len(dg))),
     is_double_rounded |-> IsDoubleRounded(Len(dg), Len(standings.rows)),
     is_valid_attendance |->
         IsValidAttendance(PctNullAttendance(NumNullAttendance(dg), Len(dg)))]

\* C29: the summary of a season does not depend on the order in which its
\* team files are read: whatever the order, the counts, the percentage and
\* the two flags are those of the summary that was computed.
C29_SummaryIndependentOfReadOrder ==
    (r_pc \in {"summarised", "done", "assembled"} /\ summary # None) =>
        \A order \in GlobOrders(FileNames) :
            /\ SummaryInOrder(order).num_total_games = summary[1].num_total_games
            /\ SummaryInOrder(order).num_null_attendance_games
                  = summary[1].num_null_attendance_games
            /\ summary[1].pct_null_attendance_games
                  \in SummaryInOrder(order).pct_null_attendance_games
            /\ SummaryInOrder(order).is_double_rounded = summary[1].is_double_rounded
            /\ SummaryInOrder(order).is_valid_attendance = summary[1].is_valid_attendance

-----------------------------------------------------------------------------
\* The rows of the season's team-games table that hold the match of row r.
RowsOfMatch(r) ==
    {i \in 1..Len(season_games) : MatchTuple(season_games[i]) = MatchTuple(r)}

\* Every match of the season is listed in the file of each of the two teams.
InBothFiles ==
    \A r \in FileRows : \A f \in FileNames :
        \E k \in 1..Len(files[f]) : MatchTuple(files[f][k]) = MatchTuple(r)

\* C30: the team-games table of a season holds each distinct match (date,
\* home_team, away_team, result) of the season's team files exactly once,
\* every match being listed in the home team's and in the away team's file.
C30_EachMatchExactlyOnce ==
    (r_pc = "done" /\ team_games_dir /\ InBothFiles) =>
        \A r \in FileRows : Cardinality(RowsOfMatch(r)) = 1

====
